---- MODULE Spec2Model ----
(***************************************************************************)
(* Model of book_keeping/cli.py: the checking-statement parser             *)
(* (parse_chase_transactions_full), the amount normalizer and the          *)
(* reconciliation step of main.                                            *)
(*                                                                         *)
(* Text is modelled as text: a line is a string, a regular expression of   *)
(* the source is a syntax tree built from the same pieces in the same      *)
(* order, and matching is a backtracking matcher with the priorities of    *)
(* Python's re module (alternatives left to right, greedy and lazy         *)
(* repetition, capturing groups, lookahead, anchors, \b).  Money is an     *)
(* integer number of cents.                                                *)
(***************************************************************************)
EXTENDS Integers, Sequences, FiniteSets, TLC

(***************************************************************************)
(* Characters and strings                                                  *)
(***************************************************************************)
Ch(s, i) == SubSeq(s, i, i)

Digits == {"0", "1", "2", "3", "4", "5", "6", "7", "8", "9"}
UpperLetters == "ABCDEFGHIJKLMNOPQRSTUVWXYZ"
LowerLetters == "abcdefghijklmnopqrstuvwxyz"
Letters == {Ch(UpperLetters, i) : i \in 1..Len(UpperLetters)}
             \cup {Ch(LowerLetters, i) : i \in 1..Len(LowerLetters)}
WordChars == Letters \cup Digits \cup {"_"}
Whitespace == {" ", "\t", "\n", "\r", "\f"}

\* Both cases of a character: what a literal matches under re.I.
BothCases(c) ==
    LET ups == {i \in 1..Len(UpperLetters) : Ch(UpperLetters, i) = c}
        los == {i \in 1..Len(LowerLetters) : Ch(LowerLetters, i) = c}
    IN  {c} \cup {Ch(LowerLetters, i) : i \in ups}
            \cup {Ch(UpperLetters, i) : i \in los}

\* Optional values: None is the empty sequence, Some(x) a one-element one.
None == <<>>
Some(x) == <<x>>
IsNone(o) == Len(o) = 0
IsSome(o) == Len(o) = 1
Val(o) == o[1]

(***************************************************************************)
(* Regular expressions: syntax trees.  A repetition's upper bound -1 is    *)
(* "no upper bound".                                                       *)
(***************************************************************************)
Set(cs)          == [t |-> "set", s |-> cs, neg |-> FALSE]
NotSet(cs)       == [t |-> "set", s |-> cs, neg |-> TRUE]
Lit(c)           == Set({c})
Cat(items)       == [t |-> "cat", items |-> items]
Alt(items)       == [t |-> "alt", items |-> items]
Rep(n, lo, hi)   == [t |-> "rep", n |-> n, lo |-> lo, hi |-> hi, lazy |-> FALSE]
RepLazy(n, lo, hi) == [t |-> "rep", n |-> n, lo |-> lo, hi |-> hi, lazy |-> TRUE]
Opt(n)           == Rep(n, 0, 1)
Star(n)          == Rep(n, 0, -1)
Plus(n)          == Rep(n, 1, -1)
StarLazy(n)      == RepLazy(n, 0, -1)
PlusLazy(n)      == RepLazy(n, 1, -1)
Grp(g, n)        == [t |-> "grp", g |-> g, n |-> n]
GrpEnd(g, from)  == [t |-> "grpend", g |-> g, from |-> from]
Bol              == [t |-> "bol"]
Eol              == [t |-> "eol"]
WordB            == [t |-> "wordb"]
NotAhead(n)      == [t |-> "notahead", n |-> n]
Ahead(n)         == [t |-> "ahead", n |-> n]

Dot   == NotSet({"\n"})
Space == Set(Whitespace)
Digit == Set(Digits)
NonDigit == NotSet(Digits)

\* A literal word, character by character; LitI is the same under re.I.
LitS(str) == Cat([i \in 1..Len(str) |-> Lit(Ch(str, i))])
LitI(str) == Cat([i \in 1..Len(str) |-> Set(BothCases(Ch(str, i)))])

(***************************************************************************)
(* The matcher.  k is the sequence of nodes still to match (the            *)
(* continuation), i the position in s (1-based), caps the groups captured  *)
(* so far: group g is <<from, to>>, the text SubSeq(s, from, to - 1), or   *)
(* <<0, 0>> when the group took no part in the match.  The result is the   *)
(* first success in the order a backtracking matcher tries the choices.    *)
(***************************************************************************)
MaxGroups == 8
NoCaps == [g \in 1..MaxGroups |-> <<0, 0>>]
Fail == [ok |-> FALSE, e |-> 0, caps |-> NoCaps]

IsWordAt(s, i) == i >= 1 /\ i <= Len(s) /\ Ch(s, i) \in WordChars
InSet(n, c) == (c \in n.s) # n.neg

Min(S) == CHOOSE x \in S : \A y \in S : x <= y
Max(S) == CHOOSE x \in S : \A y \in S : x >= y

\* How many characters from position i on are in the class n, at most hi
\* of them when hi >= 0.
RunLen(n, s, i, hi) ==
    LET room == IF hi >= 0 /\ hi < Len(s) - i + 1 THEN hi ELSE Len(s) - i + 1
    IN  Max({j \in 0..room : \A d \in 0..(j - 1) : InSet(n, Ch(s, i + d))})

RECURSIVE Match(_, _, _, _)
RECURSIVE MatchAlt(_, _, _, _, _)

Match(k, s, i, caps) ==
    IF Len(k) = 0 THEN [ok |-> TRUE, e |-> i, caps |-> caps]
    ELSE
    LET n == Head(k)
        rest == Tail(k)
    IN  CASE n.t = "set" ->
               IF i <= Len(s) /\ InSet(n, Ch(s, i))
               THEN Match(rest, s, i + 1, caps) ELSE Fail
          [] n.t = "cat" -> Match(n.items \o rest, s, i, caps)
          [] n.t = "alt" -> MatchAlt(n.items, rest, s, i, caps)
          [] n.t = "rep" /\ n.n.t = "set" ->
               \* a repeated character class: the counts lo..run are tried
               \* from the longest (greedy) or from the shortest (lazy)
               LET run  == RunLen(n.n, s, i, n.hi)
                   good == {c \in n.lo..run : Match(rest, s, i + c, caps).ok}
               IN  IF good = {} THEN Fail
                   ELSE Match(rest, s,
                              i + (IF n.lazy THEN Min(good) ELSE Max(good)), caps)
          [] n.t = "rep" /\ n.n.t # "set" ->
               LET less == [n EXCEPT !.lo = IF n.lo > 0 THEN n.lo - 1 ELSE 0,
                                     !.hi = IF n.hi > 0 THEN n.hi - 1 ELSE n.hi]
                   more == Match(<<n.n, less>> \o rest, s, i, caps)
                   stop == Match(rest, s, i, caps)
               IN  IF n.lo > 0 THEN more
                   ELSE IF n.hi = 0 THEN stop
                   ELSE IF n.lazy THEN (IF stop.ok THEN stop ELSE more)
                   ELSE (IF more.ok THEN more ELSE stop)
          [] n.t = "grp" -> Match(<<n.n, GrpEnd(n.g, i)>> \o rest, s, i, caps)
          [] n.t = "grpend" ->
               Match(rest, s, i, [caps EXCEPT ![n.g] = <<n.from, i>>])
          [] n.t = "bol" -> IF i = 1 THEN Match(rest, s, i, caps) ELSE Fail
          [] n.t = "eol" -> IF i = Len(s) + 1 THEN Match(rest, s, i, caps) ELSE Fail
          [] n.t = "wordb" ->
               IF IsWordAt(s, i - 1) # IsWordAt(s, i)
               THEN Match(rest, s, i, caps) ELSE Fail
          [] n.t = "notahead" ->
               IF Match(<<n.n>>, s, i, caps).ok THEN Fail
               ELSE Match(rest, s, i, caps)
          [] n.t = "ahead" ->
               IF Match(<<n.n>>, s, i, caps).ok THEN Match(rest, s, i, caps)
               ELSE Fail

MatchAlt(items, rest, s, i, caps) ==
    IF Len(items) = 0 THEN Fail
    ELSE LET r == Match(<<Head(items)>> \o rest, s, i, caps)
         IN  IF r.ok THEN r ELSE MatchAlt(Tail(items), rest, s, i, caps)

\* re.match: the pattern at the start of s.  b is the start of the match.
ReMatch(re, s) == Match(<<re>>, s, 1, NoCaps) @@ [b |-> 1]

\* re.search: the leftmost match of the pattern in s.
ReSearch(re, s) ==
    LET starts == {i \in 1..(Len(s) + 1) : Match(<<re>>, s, i, NoCaps).ok}
    IN  IF starts = {} THEN Fail @@ [b |-> 0]
        ELSE Match(<<re>>, s, Min(starts), NoCaps) @@ [b |-> Min(starts)]

\* m.group(g): the text of group g, None when the group took no part.
Group(m, s, g) ==
    IF m.caps[g][1] = 0 THEN None
    ELSE Some(SubSeq(s, m.caps[g][1], m.caps[g][2] - 1))
\* m.group(0)
Group0(m, s) == SubSeq(s, m.b, m.e - 1)

(***************************************************************************)
(* The patterns of the source                                              *)
(***************************************************************************)
\* _AMOUNT_RE = [\(\-]?\$?(?:\d{1,3}(?:,\d{3})*|\d)?(?:\.\d{2})[\)]?
AMOUNT_RE ==
    Cat(<< Opt(Set({"(", "-"})),
           Opt(Lit("$")),
           Opt(Alt(<< Cat(<< Rep(Digit, 1, 3),
                             Star(Cat(<< Lit(","), Rep(Digit, 3, 3) >>)) >>),
                      Digit >>)),
           Cat(<< Lit("."), Rep(Digit, 2, 2) >>),
           Opt(Set({")"})) >>)

\* date_re = (0[1-9]|1[0-2])/(0[1-9]|[12]\d|3[01])(?:/(20\d{2}))?
\* with its three groups numbered g, g+1, g+2.
date_re(g) ==
    Cat(<< Grp(g, Alt(<< Cat(<< Lit("0"), Set(Digits \ {"0"}) >>),
                         Cat(<< Lit("1"), Set({"0", "1", "2"}) >>) >>)),
           Lit("/"),
           Grp(g + 1, Alt(<< Cat(<< Lit("0"), Set(Digits \ {"0"}) >>),
                             Cat(<< Set({"1", "2"}), Digit >>),
                             Cat(<< Lit("3"), Set({"0", "1"}) >>) >>)),
           Opt(Cat(<< Lit("/"),
                      Grp(g + 2, Cat(<< LitS("20"), Rep(Digit, 2, 2) >>)) >>)) >>)

\* ^\s*DEPOSITS\s+AND\s+ADDITIONS\b   (re.I)
sect_deposits ==
    Cat(<< Bol, Star(Space), LitI("DEPOSITS"), Plus(Space), LitI("AND"),
           Plus(Space), LitI("ADDITIONS"), WordB >>)
\* ^\s*ELECTRONIC\s+WITHDRAWALS\b   (re.I)
sect_withdrawals ==
    Cat(<< Bol, Star(Space), LitI("ELECTRONIC"), Plus(Space),
           LitI("WITHDRAWALS"), WordB >>)
\* ^\s*FEES\b   (re.I)
sect_fees == Cat(<< Bol, Star(Space), LitI("FEES"), WordB >>)
\* DAILY\s+ENDING\s+BALANCE   (re.I)
sect_daily_bal ==
    Cat(<< LitI("DAILY"), Plus(Space), LitI("ENDING"), Plus(Space),
           LitI("BALANCE") >>)
\* ^\s*TOTAL\b   (re.I)
line_total == Cat(<< Bol, Star(Space), LitI("TOTAL"), WordB >>)

\* ^\s*{date_re}(?:\s+{date_re})?\s+(.*?)\s+({amount_re})\s*$
tx_header_strict ==
    Cat(<< Bol, Star(Space), date_re(1),
           Opt(Cat(<< Plus(Space), date_re(4) >>)),
           Plus(Space), Grp(7, StarLazy(Dot)), Plus(Space),
           Grp(8, AMOUNT_RE), Star(Space), Eol >>)
\* ^\s*{date_re}(?:\s+{date_re})?\s+(?!.*{amount_re}\s*$)(.+)$
tx_header_no_amt ==
    Cat(<< Bol, Star(Space), date_re(1),
           Opt(Cat(<< Plus(Space), date_re(4) >>)),
           Plus(Space),
           NotAhead(Cat(<< Star(Dot), AMOUNT_RE, Star(Space), Eol >>)),
           Grp(7, Plus(Dot)), Eol >>)
\* .*?{date_re}.*?({amount_re})\s*$
tx_header_loose ==
    Cat(<< StarLazy(Dot), date_re(1), StarLazy(Dot), Grp(4, AMOUNT_RE),
           Star(Space), Eol >>)
\* ({amount_re})\s*$
trailing_amt == Cat(<< Grp(1, AMOUNT_RE), Star(Space), Eol >>)

(***************************************************************************)
(* Helpers / cleaners                                                      *)
(***************************************************************************)
\* str.strip() and str.rstrip()
Strip(s) ==
    LET keep == {i \in 1..Len(s) : Ch(s, i) \notin Whitespace}
    IN  IF keep = {} THEN "" ELSE SubSeq(s, Min(keep), Max(keep))
RStrip(s) ==
    LET keep == {i \in 1..Len(s) : Ch(s, i) \notin Whitespace}
    IN  IF keep = {} THEN "" ELSE SubSeq(s, 1, Max(keep))

\* s.replace(c, "") for a single character c
RECURSIVE Remove(_, _)
Remove(s, c) ==
    IF Len(s) = 0 THEN ""
    ELSE (IF Ch(s, 1) = c THEN "" ELSE Ch(s, 1)) \o Remove(SubSeq(s, 2, Len(s)), c)

StartsWith(s, c) == Len(s) >= 1 /\ Ch(s, 1) = c
EndsWith(s, c)   == Len(s) >= 1 /\ Ch(s, Len(s)) = c

DigitVal(c) == CHOOSE v \in 0..9 : Ch("0123456789", v + 1) = c
\* int(s) for a string of decimal digits ("" counts 0)
RECURSIVE DigitsToInt(_)
DigitsToInt(s) ==
    IF Len(s) = 0 THEN 0
    ELSE 10 * DigitsToInt(SubSeq(s, 1, Len(s) - 1)) + DigitVal(Ch(s, Len(s)))

\* float(s), in cents: a number is digits with at most one "." and at least
\* one digit; anything else is a ValueError (None).  The texts this is
\* applied to are what _norm_amount leaves of an amount token: digits, ".",
\* and a "(" left without its ")"; they have two fractional digits.
ParseFloat(s) ==
    LET dots == {i \in 1..Len(s) : Ch(s, i) = "."}
        ok   == /\ \A i \in 1..Len(s) : Ch(s, i) \in Digits \cup {"."}
                /\ Cardinality(dots) <= 1
                /\ \E i \in 1..Len(s) : Ch(s, i) \in Digits
        dot  == IF dots = {} THEN Len(s) + 1 ELSE Min(dots)
        whole == SubSeq(s, 1, dot - 1)
        frac == SubSeq(SubSeq(s, dot + 1, Len(s)) \o "00", 1, 2)
    IN  IF ok THEN Some(100 * DigitsToInt(whole) + DigitsToInt(frac)) ELSE None

\* [^\d\.]+$
trailing_ornament == Cat(<< Plus(NotSet(Digits \cup {"."})), Eol >>)

\* _norm_amount(s): the amount token s as a signed number of cents, or None.
\* Each step takes and gives the pair of the source's variables neg and s1.
NormClean(s) == [neg |-> FALSE, s1 |-> Strip(Remove(Remove(s, "$"), ","))]
NormParens(st) ==
    IF StartsWith(st.s1, "(") /\ EndsWith(st.s1, ")")
    THEN [neg |-> TRUE, s1 |-> SubSeq(st.s1, 2, Len(st.s1) - 1)]
    ELSE st
NormMinus(st) ==
    IF StartsWith(st.s1, "-")
    THEN [neg |-> TRUE, s1 |-> SubSeq(st.s1, 2, Len(st.s1))]
    ELSE st
CutAt(text, m) == IF m.ok THEN SubSeq(text, 1, m.b - 1) ELSE text
NormOrnament(st) ==
    [neg |-> st.neg, s1 |-> CutAt(st.s1, ReSearch(trailing_ornament, st.s1))]
Signed(neg, v) ==
    IF IsNone(v) THEN None ELSE Some(IF neg THEN 0 - Val(v) ELSE Val(v))
NormFloat(st) == Signed(st.neg, ParseFloat(st.s1))
norm_amount(s) == NormFloat(NormOrnament(NormMinus(NormParens(NormClean(s)))))

\* strip_after_first_amount(line): the text up to and including the first
\* amount on the line
UpTo(line, m) == IF ~m.ok THEN line ELSE RStrip(SubSeq(line, 1, m.e - 1))
strip_after_first_amount(line) == UpTo(line, ReSearch(AMOUNT_RE, line))

Abs(x) == IF x < 0 THEN 0 - x ELSE x

\* Seeded fault: datetime() without its range check
MakeDate_Unchecked(y, m, d) == Some([y |-> y, m |-> m, d |-> d])

\* datetime(year, month, day): None stands for the ValueError
IsLeap(y) == (y % 4 = 0 /\ y % 100 # 0) \/ y % 400 = 0
DaysInMonth(y, m) ==
    IF m = 2 THEN (IF IsLeap(y) THEN 29 ELSE 28)
    ELSE IF m \in {4, 6, 9, 11} THEN 30 ELSE 31
MakeDate(y, m, d) ==
    IF y >= 1 /\ y <= 9999 /\ m >= 1 /\ m <= 12 /\ d >= 1 /\ d <= DaysInMonth(y, m)
    THEN Some([y |-> y, m |-> m, d |-> d])
    ELSE None

\* "\n".join(lines)
RECURSIVE JoinLines(_)
JoinLines(lines) ==
    IF Len(lines) = 0 THEN ""
    ELSE IF Len(lines) = 1 THEN lines[1]
    ELSE lines[1] \o "\n" \o JoinLines(Tail(lines))

\* a or b, for optional texts: the first that is neither None nor empty
OrText(a, b) == IF IsSome(a) /\ Len(Val(a)) > 0 THEN a ELSE b

(***************************************************************************)
(* Checking parser: parse_chase_transactions_full                          *)
(***************************************************************************)
\* The statement text is read line by line; each line is drawn from
\* RawLines, at most MaxLines of them.
MaxLines == 3

RawLines ==
    { "DEPOSITS AND ADDITIONS",
      "Electronic Withdrawals",
      "FEES",
      "DAILY ENDING BALANCE",
      "FEES DAILY ENDING BALANCE",
      "TOTAL 30.00",
      "Total Fees (7.00)",
      "TOTAL 0.00",
      "TOTAL",
      "TOTAL (5.00",
      "07/15 ACH DEPOSIT 10.00",
      "07/15 08/16 WIDGETS INC 20.00",
      "07/15 08/16 30.00",
      "07/15/2023 WIRE 8.00",
      "02/29 LEAP 3.00",
      "02/30 BAD DATE 5.00",
      "07/17 REFUND (5.00",
      "07/15 DAILY ENDING BALANCE 9.00",
      "07/16 PAYROLL FUNDING",
      "02/30 PAYROLL",
      "07/15 08/16 RENT",
      "CARD 07/18 PURCHASE 7.00",
      "07/15/24 X 5.00",
      "CARD 02/30 PURCHASE 7.00",
      "POS 07/18 1.00 9.00",
      "FEE 1.00 ON 07/19 2.00",
      "X 07/18 (5.00",
      "TRACE 123",
      "  500.00 ",
      "REF 4.00 EXTRA",
      "REF (6.00 TAIL" }

DefaultYears == {2023, 2024}
Sections == {"deposit", "withdrawal", "fee"}
NoSection == "None"

\* _norm_amount(m.group(g)) of a match m in text, None without a match;
\* group 0 is the whole match.
GroupAmount(m, text, g) ==
    IF ~m.ok THEN None
    ELSE IF g = 0 THEN norm_amount(Group0(m, text))
    ELSE norm_amount(Val(Group(m, text, g)))

\* What the parser finds in the text up to the first amount of a line.
ScanClipped(clipped) ==
    [ first_amt |-> ReSearch(AMOUNT_RE, clipped),
      first_val |-> GroupAmount(ReSearch(AMOUNT_RE, clipped), clipped, 0),
      dmatch    |-> ReSearch(date_re(1), clipped) ]

\* Everything the parser computes from one stripped line l by matching,
\* worked out once per line of the vocabulary.
Scan(l) ==
    [ daily        |-> ReSearch(sect_daily_bal, l).ok,
      deposits     |-> ReSearch(sect_deposits, l).ok,
      withdrawals  |-> ReSearch(sect_withdrawals, l).ok,
      fees         |-> ReSearch(sect_fees, l).ok,
      total        |-> ReSearch(line_total, l).ok,
      trailing     |-> ReSearch(trailing_amt, l),
      trailing_val |-> GroupAmount(ReSearch(trailing_amt, l), l, 1),
      clipped      |-> strip_after_first_amount(l),
      in_clipped   |-> ScanClipped(strip_after_first_amount(l)),
      strict       |-> ReMatch(tx_header_strict, l),
      strict_val   |-> GroupAmount(ReMatch(tx_header_strict, l), l, 8),
      no_amt       |-> ReMatch(tx_header_no_amt, l),
      loose        |-> ReMatch(tx_header_loose, l) ]

InputLines == {Strip(raw) : raw \in RawLines}
ScanOf == [l \in InputLines |-> Scan(l)]

VARIABLES
    default_year,    \* parameter default_year
    pc,              \* "reading" inside the loop over the lines, "done" after the return
    nread,           \* how many lines have been read
    ln,              \* the line last read, stripped
    rule,            \* which branch of the loop body handled it
    section,
    current,
    pending_header,
    transactions,
    pdf_totals,
    unparsed,
    total_seen,      \* the sections in which a TOTAL line was read
    force,           \* main: args.force
    mpc,             \* main: "parsing", "parsed", "summed", "raised", "warned", "reconciled"
    sums_from_data,  \* main: sums_from_data
    mismatches,      \* main: mismatches
    stdout,          \* main: the lines printed
    error,           \* main: the message of the AssertionError raised, or None
    amt_token,       \* _norm_amount: the argument s
    amt_value,       \* _norm_amount: the value returned
    apc,             \* _norm_amount: "idle", "called", "returned"
    cpc,             \* credit-card parser: "idle", "scanning" ahead of the first
                     \* line with a date token, "blocks" from it on, "returned"
    cc_nread,        \* credit-card parser: how many lines have been read
    cc_ln,           \* credit-card parser: the line last read
    cc_rule,         \* credit-card parser: what was done with it
    first_tx_idx,
    new_balance,
    prev_balance,
    cc_txs,          \* credit-card parser: txs
    current_date,
    current_lines,
    dry_run,         \* main: args.dry_run
    has_checking,    \* main: checking_pdf is not None
    has_cc_sheet,    \* main: "Credit Card Register-Corp" in wb.sheetnames
    blocks,          \* main: blocks, each with what is found and parsed for it
    blk,             \* main: how many of the blocks the loop has gone through
    written,         \* main: the blocks write_cc_block was called for
    dest_file,       \* main: what the file dest_excel holds
    cc_checks        \* main: how the check of each block went

parservars == << default_year, pc, nread, ln, rule, section, current,
                 pending_header, transactions, pdf_totals, unparsed, total_seen >>
mainvars == << force, mpc, sums_from_data, mismatches, stdout, error >>
amountvars == << amt_token, amt_value, apc >>
ccvars == << cpc, cc_nread, cc_ln, cc_rule, first_tx_idx, new_balance, prev_balance,
            cc_txs, current_date, current_lines >>
runvars == << dry_run, has_checking, has_cc_sheet, blocks, blk, written, dest_file,
             cc_checks >>
vars == << parservars, mainvars, amountvars, ccvars, runvars >>

\* _norm_amount is not running
AmountIdle == amt_token = "" /\ amt_value = None /\ apc = "idle"

\* main's work around the two reconciliations is left out
RunIdle ==
    /\ dry_run = FALSE
    /\ has_checking = TRUE
    /\ has_cc_sheet = FALSE
    /\ blocks = <<>>
    /\ blk = 0
    /\ written = <<>>
    /\ dest_file = "absent"
    /\ cc_checks = <<>>

\* parse_credit_card_transactions_multiline is not running
CcIdle ==
    /\ cpc = "idle"
    /\ cc_nread = 0
    /\ cc_ln = ""
    /\ cc_rule = "start"
    /\ first_tx_idx = None
    /\ new_balance = None
    /\ prev_balance = None
    /\ cc_txs = <<>>
    /\ current_date = None
    /\ current_lines = <<>>

Init ==
    /\ default_year \in DefaultYears
    /\ pc = "reading"
    /\ nread = 0
    /\ ln = ""
    /\ rule = "start"
    /\ section = NoSection
    /\ current = None
    /\ pending_header = None
    /\ transactions = <<>>
    /\ pdf_totals = [s \in Sections |-> 0]
    /\ unparsed = [s \in Sections |-> <<>>]
    /\ total_seen = {}
    /\ force = FALSE
    /\ mpc = "parsing"
    /\ sums_from_data = [s \in Sections |-> 0]
    /\ mismatches = <<>>
    /\ stdout = <<>>
    /\ error = None
    /\ AmountIdle
    /\ CcIdle
    /\ RunIdle

\* What finalize_current appends: the record with its Description set.
Finalized(cur) ==
    [ Date |-> cur.Date, Amount |-> cur.Amount, Section |-> cur.Section,
      desc_lines |-> cur.desc_lines,
      Description |-> Strip(JoinLines(cur.desc_lines)) ]

\* Seeded fault: finalize_current() that skips a record already in the list
finalize_current_dedup(cur, txs) ==
    IF IsSome(cur) /\ \A i \in 1..Len(txs) : txs[i] # Finalized(Val(cur))
    THEN Append(txs, Finalized(Val(cur)))
    ELSE txs

\* finalize_current(): the transaction list afterwards (current becomes None)
finalize_current(cur, txs) ==
    IF IsSome(cur) THEN Append(txs, Finalized(Val(cur))) ELSE txs

\* Seeded fault: the header date taken from the first date token always
HeaderDate_FirstPair(m, l, dflt) ==
    MakeDate(IF IsSome(Group(m, l, 3)) THEN DigitsToInt(Val(Group(m, l, 3))) ELSE dflt,
             DigitsToInt(Val(Group(m, l, 1))),
             DigitsToInt(Val(Group(m, l, 2))))

\* The date of a strict or no-amount header match m: its date groups are
\* 1..3 and 4..6, and the second date, where it took part, goes first.
HeaderDate(m, l, dflt) ==
    MakeDate(IF IsSome(OrText(Group(m, l, 6), Group(m, l, 3)))
             THEN DigitsToInt(Val(OrText(Group(m, l, 6), Group(m, l, 3))))
             ELSE dflt,
             DigitsToInt(Val(OrText(Group(m, l, 4), Group(m, l, 1)))),
             DigitsToInt(Val(OrText(Group(m, l, 5), Group(m, l, 2)))))

\* Seeded fault: the balance marker leaving the section active
OnDailyBalance_KeepSection ==
    /\ transactions' = IF IsSome(current)
                       THEN Append(transactions, Finalized(Val(current)))
                       ELSE transactions
    /\ current' = None
    /\ pending_header' = None
    /\ rule' = "daily"
    /\ UNCHANGED << section, pdf_totals, unparsed, total_seen >>

\* sect_daily_bal: finalize, no section, no pending header
OnDailyBalance ==
    /\ transactions' = finalize_current(current, transactions)
    /\ current' = None
    /\ section' = NoSection
    /\ pending_header' = None
    /\ rule' = "daily"
    /\ UNCHANGED << pdf_totals, unparsed, total_seen >>

\* Seeded fault: a section marker that leaves the open record open
OnSection_KeepOpen(sec) ==
    /\ section' = sec
    /\ pending_header' = None
    /\ rule' = "section"
    /\ UNCHANGED << transactions, current, pdf_totals, unparsed, total_seen >>

\* a section marker: finalize, the marker's section, no pending header
OnSection(sec) ==
    /\ transactions' = finalize_current(current, transactions)
    /\ current' = None
    /\ section' = sec
    /\ pending_header' = None
    /\ rule' = "section"
    /\ UNCHANGED << pdf_totals, unparsed, total_seen >>

\* if not section: continue
OnNoSection ==
    /\ rule' = "ignored"
    /\ UNCHANGED << transactions, current, section, pending_header, pdf_totals,
                    unparsed, total_seen >>

\* Seeded fault: a TOTAL line whose amount is filed under "deposit" whatever
\* the section
OnTotal_Deposit(l, sc) ==
    /\ pdf_totals' =
         IF sc.trailing.ok /\ IsSome(sc.trailing_val)
         THEN [pdf_totals EXCEPT !["deposit"] = Abs(Val(sc.trailing_val))]
         ELSE pdf_totals
    /\ transactions' = IF IsSome(current)
                       THEN Append(transactions, Finalized(Val(current)))
                       ELSE transactions
    /\ current' = None
    /\ pending_header' = None
    /\ total_seen' = total_seen \cup {section}
    /\ rule' = "total"
    /\ UNCHANGED << section, unparsed >>

\* Seeded fault: a TOTAL line whose amount is stored with its sign
OnTotal_Signed(l, sc) ==
    /\ pdf_totals' =
         IF sc.trailing.ok /\ IsSome(sc.trailing_val)
         THEN [pdf_totals EXCEPT ![section] = Val(sc.trailing_val)]
         ELSE pdf_totals
    /\ transactions' = IF IsSome(current)
                       THEN Append(transactions, Finalized(Val(current)))
                       ELSE transactions
    /\ current' = None
    /\ pending_header' = None
    /\ total_seen' = total_seen \cup {section}
    /\ rule' = "total"
    /\ UNCHANGED << section, unparsed >>

\* a TOTAL line
OnTotal(l, sc) ==
    /\ pdf_totals' =
         IF sc.trailing.ok /\ IsSome(sc.trailing_val)
         THEN [pdf_totals EXCEPT ![section] = Abs(Val(sc.trailing_val))]
         ELSE pdf_totals
    /\ transactions' = finalize_current(current, transactions)
    /\ current' = None
    /\ pending_header' = None
    /\ total_seen' = total_seen \cup {section}
    /\ rule' = "total"
    /\ UNCHANGED << section, unparsed >>

\* Seeded fault: the pending-header rule opening the record without the
\* pending text
OnPending_LineOnly(l, sc) ==
    IF sc.in_clipped.first_amt.ok /\ IsSome(sc.in_clipped.first_val)
    THEN /\ current' = Some([ Date |-> Val(pending_header).date,
                              Amount |-> Val(sc.in_clipped.first_val),
                              Section |-> Val(pending_header).section,
                              desc_lines |-> << sc.clipped >> ])
         /\ pending_header' = None
         /\ rule' = "pending_amount"
         /\ UNCHANGED << transactions, section, pdf_totals, unparsed, total_seen >>
    ELSE /\ pending_header' =
              Some([Val(pending_header) EXCEPT !.desc = @ \o " " \o sc.clipped])
         /\ rule' = "pending_append"
         /\ UNCHANGED << transactions, current, section, pdf_totals, unparsed,
                         total_seen >>

\* Seeded fault: the pending-header rule leaving the header pending beside
\* the record it has opened
OnPending_KeepHeader(l, sc) ==
    IF sc.in_clipped.first_amt.ok /\ IsSome(sc.in_clipped.first_val)
    THEN /\ current' = Some([ Date |-> Val(pending_header).date,
                              Amount |-> Val(sc.in_clipped.first_val),
                              Section |-> Val(pending_header).section,
                              desc_lines |-> << Val(pending_header).desc,
                                                sc.clipped >> ])
         /\ rule' = "pending_amount"
         /\ UNCHANGED << transactions, section, pending_header, pdf_totals,
                         unparsed, total_seen >>
    ELSE /\ pending_header' =
              Some([Val(pending_header) EXCEPT !.desc = @ \o " " \o sc.clipped])
         /\ rule' = "pending_append"
         /\ UNCHANGED << transactions, current, section, pdf_totals, unparsed,
                         total_seen >>

\* Two-line header: the amount is on a following line
OnPending(l, sc) ==
    IF sc.in_clipped.first_amt.ok /\ IsSome(sc.in_clipped.first_val)
    THEN /\ current' = Some([ Date |-> Val(pending_header).date,
                              Amount |-> Val(sc.in_clipped.first_val),
                              Section |-> Val(pending_header).section,
                              desc_lines |-> << Val(pending_header).desc,
                                                sc.clipped >> ])
         /\ pending_header' = None
         /\ rule' = "pending_amount"
         /\ UNCHANGED << transactions, section, pdf_totals, unparsed, total_seen >>
    ELSE /\ pending_header' =
              Some([Val(pending_header) EXCEPT !.desc = @ \o " " \o sc.clipped])
         /\ rule' = "pending_append"
         /\ UNCHANGED << transactions, current, section, pdf_totals, unparsed,
                         total_seen >>

\* unparsed[section].append(ln); continue
Reject(l, why) ==
    /\ unparsed' = [unparsed EXCEPT ![section] = Append(@, l)]
    /\ rule' = why

\* tx_header_strict matched
OnStrict(l, sc) ==
    /\ transactions' = finalize_current(current, transactions)
    /\ IF IsNone(HeaderDate(sc.strict, l, default_year))
       THEN Reject(l, "strict_bad_date") /\ current' = None
       ELSE IF IsNone(sc.strict_val)
       THEN Reject(l, "strict_bad_amount") /\ current' = None
       ELSE /\ current' = Some([ Date |-> Val(HeaderDate(sc.strict, l, default_year)),
                                 Amount |-> Val(sc.strict_val),
                                 Section |-> section,
                                 desc_lines |-> << Val(Group(sc.strict, l, 7)) >> ])
            /\ rule' = "strict"
            /\ UNCHANGED unparsed
    /\ UNCHANGED << section, pending_header, pdf_totals, total_seen >>

\* Seeded fault: a header without amount that leaves the open record open
OnNoAmt_KeepOpen(l, sc) ==
    IF IsNone(HeaderDate(sc.no_amt, l, default_year))
    THEN /\ Reject(l, "no_amt_bad_date")
         /\ UNCHANGED << transactions, current, section, pending_header,
                         pdf_totals, total_seen >>
    ELSE /\ pending_header' =
              Some([ date |-> Val(HeaderDate(sc.no_amt, l, default_year)),
                     desc |-> Val(Group(sc.no_amt, l, 7)),
                     section |-> section ])
         /\ rule' = "no_amt"
         /\ UNCHANGED << transactions, current, section, pdf_totals, unparsed,
                         total_seen >>

\* tx_header_no_amt matched
OnNoAmt(l, sc) ==
    IF IsNone(HeaderDate(sc.no_amt, l, default_year))
    THEN /\ Reject(l, "no_amt_bad_date")
         /\ UNCHANGED << transactions, current, section, pending_header,
                         pdf_totals, total_seen >>
    ELSE /\ transactions' = finalize_current(current, transactions)
         /\ current' = None
         /\ pending_header' =
              Some([ date |-> Val(HeaderDate(sc.no_amt, l, default_year)),
                     desc |-> Val(Group(sc.no_amt, l, 7)),
                     section |-> section ])
         /\ rule' = "no_amt"
         /\ UNCHANGED << section, pdf_totals, unparsed, total_seen >>

\* The date of a loose header: dmatch found in ln_clipped
LooseDate(dmatch, ln_clipped, dflt) ==
    MakeDate(IF IsSome(Group(dmatch, ln_clipped, 3))
             THEN DigitsToInt(Val(Group(dmatch, ln_clipped, 3))) ELSE dflt,
             DigitsToInt(Val(Group(dmatch, ln_clipped, 1))),
             DigitsToInt(Val(Group(dmatch, ln_clipped, 2))))

\* Seeded fault: a loose header that takes the amount at the end of the line
OnLoose_LineEndAmount(l, sc) ==
    IF ~(sc.in_clipped.first_amt.ok /\ sc.in_clipped.dmatch.ok)
    THEN /\ Reject(l, "loose_no_date")
         /\ UNCHANGED << transactions, current, section, pending_header,
                         pdf_totals, total_seen >>
    ELSE IF IsNone(sc.trailing_val)
    THEN /\ Reject(l, "loose_bad_amount")
         /\ UNCHANGED << transactions, current, section, pending_header,
                         pdf_totals, total_seen >>
    ELSE IF IsNone(LooseDate(sc.in_clipped.dmatch, sc.clipped, default_year))
    THEN /\ Reject(l, "loose_bad_date")
         /\ UNCHANGED << transactions, current, section, pending_header,
                         pdf_totals, total_seen >>
    ELSE /\ transactions' = IF IsSome(current)
                            THEN Append(transactions, Finalized(Val(current)))
                            ELSE transactions
         /\ current' =
              Some([ Date |-> Val(LooseDate(sc.in_clipped.dmatch, sc.clipped,
                                            default_year)),
                     Amount |-> Val(sc.trailing_val),
                     Section |-> section,
                     desc_lines |-> << sc.clipped >> ])
         /\ rule' = "loose"
         /\ UNCHANGED << section, pending_header, pdf_totals, unparsed,
                         total_seen >>

\* tx_header_loose matched
OnLoose(l, sc) ==
    IF ~(sc.in_clipped.first_amt.ok /\ sc.in_clipped.dmatch.ok)
    THEN /\ Reject(l, "loose_no_date")
         /\ UNCHANGED << transactions, current, section, pending_header,
                         pdf_totals, total_seen >>
    ELSE IF IsNone(sc.in_clipped.first_val)
    THEN /\ Reject(l, "loose_bad_amount")
         /\ UNCHANGED << transactions, current, section, pending_header,
                         pdf_totals, total_seen >>
    ELSE IF IsNone(LooseDate(sc.in_clipped.dmatch, sc.clipped, default_year))
    THEN /\ Reject(l, "loose_bad_date")
         /\ UNCHANGED << transactions, current, section, pending_header,
                         pdf_totals, total_seen >>
    ELSE /\ transactions' = finalize_current(current, transactions)
         /\ current' =
              Some([ Date |-> Val(LooseDate(sc.in_clipped.dmatch, sc.clipped,
                                            default_year)),
                     Amount |-> Val(sc.in_clipped.first_val),
                     Section |-> section,
                     desc_lines |-> << sc.clipped >> ])
         /\ rule' = "loose"
         /\ UNCHANGED << section, pending_header, pdf_totals, unparsed,
                         total_seen >>

\* Seeded fault: a continuation line whose amount replaces the record's
OnContinuation_TakesAmount(l, sc) ==
    /\ current' =
         Some([Val(current) EXCEPT
                 !.desc_lines = Append(@, sc.clipped),
                 !.Amount = IF IsSome(sc.in_clipped.first_val)
                            THEN Val(sc.in_clipped.first_val) ELSE @])
    /\ rule' = "continuation"
    /\ UNCHANGED << transactions, section, pending_header, pdf_totals, unparsed,
                    total_seen >>

\* a line that is no marker and no header, with a record open
OnContinuation(l, sc) ==
    /\ current' = Some([Val(current) EXCEPT !.desc_lines = Append(@, sc.clipped)])
    /\ rule' = "continuation"
    /\ UNCHANGED << transactions, section, pending_header, pdf_totals, unparsed,
                    total_seen >>

\* Seeded fault: an unrecognised line that is passed over
OnUnparsed_Drop(l) ==
    /\ rule' = "unparsed"
    /\ UNCHANGED << transactions, current, section, pending_header, pdf_totals,
                    unparsed, total_seen >>

\* a line that is no marker and no header, with no record open
OnUnparsed(l) ==
    /\ Reject(l, "unparsed")
    /\ UNCHANGED << transactions, current, section, pending_header, pdf_totals,
                    total_seen >>

\* Seeded fault: the loop body without the test for an active section
LoopBody_NoIdleTest(l, sc) ==
    IF sc.daily THEN OnDailyBalance
    ELSE IF sc.deposits THEN OnSection("deposit")
    ELSE IF sc.withdrawals THEN OnSection("withdrawal")
    ELSE IF sc.fees THEN OnSection("fee")
    ELSE IF sc.total THEN OnTotal(l, sc)
    ELSE IF IsSome(pending_header) THEN OnPending(l, sc)
    ELSE IF sc.strict.ok THEN OnStrict(l, sc)
    ELSE IF sc.no_amt.ok THEN OnNoAmt(l, sc)
    ELSE IF sc.loose.ok THEN OnLoose(l, sc)
    ELSE IF IsSome(current) THEN OnContinuation(l, sc)
    ELSE OnUnparsed(l)

\* The loop body for the stripped line l, whose matches are sc: the line is
\* handled by the first branch whose test it passes.
LoopBody(l, sc) ==
    IF sc.daily THEN OnDailyBalance
    ELSE IF sc.deposits THEN OnSection("deposit")
    ELSE IF sc.withdrawals THEN OnSection("withdrawal")
    ELSE IF sc.fees THEN OnSection("fee")
    ELSE IF section = NoSection THEN OnNoSection
    ELSE IF sc.total THEN OnTotal(l, sc)
    ELSE IF IsSome(pending_header) THEN OnPending(l, sc)
    ELSE IF sc.strict.ok THEN OnStrict(l, sc)
    ELSE IF sc.no_amt.ok THEN OnNoAmt(l, sc)
    ELSE IF sc.loose.ok THEN OnLoose(l, sc)
    ELSE IF IsSome(current) THEN OnContinuation(l, sc)
    ELSE OnUnparsed(l)

\* One pass of the loop: the line raw is read.
ReadLine(raw) ==
    /\ pc = "reading"
    /\ nread < MaxLines
    /\ nread' = nread + 1
    /\ ln' = Strip(raw)
    /\ LoopBody(Strip(raw), ScanOf[Strip(raw)])
    /\ UNCHANGED << default_year, pc >>
    /\ UNCHANGED << mainvars, amountvars, ccvars, runvars >>

\* Seeded fault: the end of input forgetting an unresolved pending header
EndOfInput_DropPending ==
    /\ pc = "reading"
    /\ pc' = "done"
    /\ transactions' = IF IsSome(current)
                       THEN Append(transactions, Finalized(Val(current)))
                       ELSE transactions
    /\ current' = None
    /\ rule' = "end"
    /\ UNCHANGED << default_year, nread, ln, section, pending_header, pdf_totals,
                    unparsed, total_seen >>
    /\ UNCHANGED << mainvars, amountvars, ccvars, runvars >>

\* After the last line: finalize, and an unresolved pending header goes to
\* the unparsed list of its section.
EndOfInput ==
    /\ pc = "reading"
    /\ pc' = "done"
    /\ transactions' = finalize_current(current, transactions)
    /\ current' = None
    /\ unparsed' = IF IsSome(pending_header)
                   THEN [unparsed EXCEPT ![Val(pending_header).section] =
                            Append(@, Val(pending_header).desc)]
                   ELSE unparsed
    /\ rule' = "end"
    /\ UNCHANGED << default_year, nread, ln, section, pending_header, pdf_totals,
                    total_seen >>
    /\ UNCHANGED << mainvars, amountvars, ccvars, runvars >>

Next ==
    \/ \E raw \in RawLines : ReadLine(raw)
    \/ EndOfInput

Spec == Init /\ [][Next]_vars

(***************************************************************************)
(* main: reconciliation of the checking statement                          *)
(***************************************************************************)
\* Amounts are Python floats.  An amount of k cents is the double nearest to
\* k/100; FloatErr(k) is that double minus k/100, counted in units of
\* 2^-59 / 100 (the double nearest 0.01 has its last bit at 2^-59).  It is
\* worked out for 0 <= k < 100 * 2^18.
AtLeastPow2(k, e) == IF e >= 0 THEN 100 * 2^e <= k ELSE 100 <= k * 2^(0 - e)
\* floor(log2(k / 100))
Binade(k) == CHOOSE e \in -7..17 : AtLeastPow2(k, e) /\ ~AtLeastPow2(k, e + 1)
\* 2^n modulo 100
RECURSIVE PowMod100(_)
PowMod100(n) == IF n = 0 THEN 1 ELSE (2 * PowMod100(n - 1)) % 100
\* what is cut off or added when k * 2^(52 - Binade(k)) / 100 is rounded to
\* the nearest integer, in hundredths
RoundOff(k) ==
    IF ((k % 100) * PowMod100(52 - Binade(k))) % 100 < 50
    THEN 0 - (((k % 100) * PowMod100(52 - Binade(k))) % 100)
    ELSE 100 - (((k % 100) * PowMod100(52 - Binade(k))) % 100)
FloatErr(k) == IF k = 0 THEN 0 ELSE RoundOff(k) * 2^(Binade(k) + 7)

\* math.isclose(a, b, abs_tol=0.01) for amounts of a and b cents:
\* abs(a - b) <= max(1e-9 * max(abs(a), abs(b)), 0.01), in doubles.  Below
\* ten million the relative term is the smaller one.  Amounts one cent apart
\* are subtracted exactly, so the test compares the round-off of the two
\* with the round-off of 0.01.
isclose(a, b) ==
    IF a = b THEN TRUE
    ELSE IF Abs(a - b) >= 2 THEN FALSE
    ELSE IF a = 0 \/ b = 0 THEN TRUE
    ELSE IF a > b THEN FloatErr(a) - FloatErr(b) <= FloatErr(1)
    ELSE FloatErr(b) - FloatErr(a) <= FloatErr(1)

SectionOrder == << "deposit", "withdrawal", "fee" >>

\* [t for t in transactions if t["Section"] == sec]
RECURSIVE OfSection(_, _)
OfSection(txs, sec) ==
    IF Len(txs) = 0 THEN <<>>
    ELSE (IF Head(txs).Section = sec THEN << Head(txs) >> ELSE <<>>)
         \o OfSection(Tail(txs), sec)

\* ordered_tx: the transactions of each section in turn
ordered_tx(txs) ==
    OfSection(txs, "deposit") \o OfSection(txs, "withdrawal") \o OfSection(txs, "fee")

RECURSIVE SumAbs(_)
SumAbs(txs) ==
    IF Len(txs) = 0 THEN 0 ELSE Abs(Head(txs).Amount) + SumAbs(Tail(txs))

\* compute_section_sums(transactions): per section the sum of the absolute
\* amounts, rounded to two places (in cents the sum is whole already)
compute_section_sums(txs) == [sec \in Sections |-> SumAbs(OfSection(txs, sec))]

\* str(n) for n >= 0
RECURSIVE IntToStr(_)
IntToStr(n) ==
    IF n < 10 THEN Ch("0123456789", n + 1)
    ELSE IntToStr(n \div 10) \o Ch("0123456789", (n % 10) + 1)

\* f"{x:.2f}" for x >= 0 of c cents
Fixed2(c) ==
    IntToStr(c \div 100) \o "." \o IntToStr((c % 100) \div 10) \o IntToStr(c % 10)

\* The eight lines printed ahead of the comparison
TotalsLines(pdf, sums) ==
    << "PDF Section Totals:",
       "  Deposits   : $" \o Fixed2(pdf["deposit"]),
       "  Withdrawals: $" \o Fixed2(pdf["withdrawal"]),
       "  Fees       : $" \o Fixed2(pdf["fee"]),
       "Computed Totals (from data):",
       "  Deposits   : $" \o Fixed2(sums["deposit"]),
       "  Withdrawals: $" \o Fixed2(sums["withdrawal"]),
       "  Fees       : $" \o Fixed2(sums["fee"]) >>

\* [sec for sec in (...) if not isclose(pdf_totals[sec], sums_from_data[sec], abs_tol=0.01)]
RECURSIVE Mismatching(_, _, _)
Mismatching(order, pdf, sums) ==
    IF Len(order) = 0 THEN <<>>
    ELSE (IF isclose(pdf[Head(order)], sums[Head(order)]) THEN <<>>
          ELSE << Head(order) >>)
         \o Mismatching(Tail(order), pdf, sums)

MismatchMessage ==
    "Section totals mismatch between PDF and parsed data. Use --force to proceed."
WarnMessage == "[WARN] Totals mismatch, but --force specified; continuing."

\* The parse has returned: sums, printed totals, comparison
MainSums ==
    /\ mpc = "parsed"
    /\ sums_from_data' = compute_section_sums(ordered_tx(transactions))
    /\ stdout' = stdout \o TotalsLines(pdf_totals,
                                         compute_section_sums(ordered_tx(transactions)))
    /\ mismatches' = Mismatching(SectionOrder, pdf_totals,
                                 compute_section_sums(ordered_tx(transactions)))
    /\ mpc' = "summed"
    /\ UNCHANGED << parservars, amountvars, ccvars, runvars, force, error >>

\* if mismatches and not args.force: raise AssertionError(...)
MainRaise ==
    /\ mpc = "summed"
    /\ mismatches # <<>> /\ ~force
    /\ error' = Some(MismatchMessage)
    /\ mpc' = "raised"
    /\ UNCHANGED << parservars, amountvars, ccvars, runvars, force, sums_from_data, mismatches, stdout >>

\* elif mismatches: print("[WARN] ...")
MainWarn ==
    /\ mpc = "summed"
    /\ mismatches # <<>> /\ force
    /\ stdout' = Append(stdout, WarnMessage)
    /\ mpc' = "warned"
    /\ UNCHANGED << parservars, amountvars, ccvars, runvars, force, sums_from_data, mismatches, error >>

\* no mismatch: straight on to the register
MainProceed ==
    /\ mpc = "summed"
    /\ mismatches = <<>>
    /\ mpc' = "reconciled"
    /\ UNCHANGED << parservars, amountvars, ccvars, runvars, force, sums_from_data, mismatches, stdout, error >>

\* What the parser may have returned to main: up to MaxTx transactions with
\* amounts from ParsedAmounts, totals from ParsedTotals, unparsed lines.
MaxTx == 2
ParsedAmounts == {1, 6, 0 - 3001}
ParsedTotals == {0, 2, 7, 3000}
ParsedTx(sec, amt) ==
    [ Date |-> [y |-> 2023, m |-> 7, d |-> 15], Amount |-> amt, Section |-> sec,
      desc_lines |-> << "ACH DEPOSIT" >>, Description |-> "ACH DEPOSIT" ]
ParsedLists ==
    UNION { [1..n -> {ParsedTx(sec, amt) : sec \in Sections, amt \in ParsedAmounts}]
            : n \in 0..MaxTx }
ParsedUnparsed ==
    { [sec \in Sections |-> <<>>],
      [sec \in Sections |-> IF sec = "deposit" THEN << "TRACE 123" >> ELSE <<>>] }

InitMain ==
    /\ default_year = 2023
    /\ pc = "done"
    /\ nread = 0
    /\ ln = ""
    /\ rule = "end"
    /\ section = NoSection
    /\ current = None
    /\ pending_header = None
    /\ transactions \in ParsedLists
    /\ pdf_totals \in [Sections -> ParsedTotals]
    /\ unparsed \in ParsedUnparsed
    /\ total_seen = {sec \in Sections : pdf_totals[sec] # 0}
    /\ force \in BOOLEAN
    /\ mpc = "parsed"
    /\ sums_from_data = [sec \in Sections |-> 0]
    /\ mismatches = <<>>
    /\ stdout = <<>>
    /\ error = None
    /\ AmountIdle
    /\ CcIdle
    /\ RunIdle

NextMain ==
    \/ MainSums
    \/ MainRaise
    \/ MainWarn
    \/ MainProceed

SpecMain == InitMain /\ [][NextMain]_vars

(***************************************************************************)
(* _norm_amount on its own: called with a token, it returns                *)
(***************************************************************************)
\* The tokens _norm_amount is called with: every way of putting together an
\* opening glyph, a currency sign, an integer part, a fraction and a
\* closing glyph.
TokenLead  == {"", "(", "-"}
TokenSign  == {"", "$"}
TokenWhole == {"", "0", "5", "47", "1,204", "1204"}
TokenFrac  == {".00", ".21"}
TokenTrail == {"", ")"}
AmountTokens ==
    { a \o b \o c \o d \o e : a \in TokenLead, b \in TokenSign, c \in TokenWhole,
                              d \in TokenFrac, e \in TokenTrail }

\* parse_chase_transactions_full is not running
ParserIdle ==
    /\ pc = "done"
    /\ nread = 0
    /\ ln = ""
    /\ rule = "end"
    /\ section = NoSection
    /\ current = None
    /\ pending_header = None
    /\ transactions = <<>>
    /\ pdf_totals = [sec \in Sections |-> 0]
    /\ unparsed = [sec \in Sections |-> <<>>]
    /\ total_seen = {}

\* main is not running
MainIdle ==
    /\ force = FALSE
    /\ mpc = "parsing"
    /\ sums_from_data = [sec \in Sections |-> 0]
    /\ mismatches = <<>>
    /\ stdout = <<>>
    /\ error = None

InitAmount ==
    /\ default_year = 2023
    /\ ParserIdle
    /\ MainIdle
    /\ CcIdle
    /\ RunIdle
    /\ amt_token \in AmountTokens
    /\ amt_value = None
    /\ apc = "called"

\* def _norm_amount(s): ... return v, or None
NormAmount ==
    /\ apc = "called"
    /\ amt_value' = norm_amount(amt_token)
    /\ apc' = "returned"
    /\ UNCHANGED << parservars, mainvars, ccvars, runvars, amt_token >>

NextAmount == NormAmount

SpecAmount == InitAmount /\ [][NextAmount]_vars

(***************************************************************************)
(* Credit-card parser: parse_credit_card_transactions_multiline            *)
(***************************************************************************)
\* (?:^|\s)(?P<mm>0[1-9]|1[0-2])/(?P<dd>0[1-9]|[12]\d|3[01])
\* (?:/(?P<yy>\d{2,4}))?(?:[*...])?(?=\D|$)
\* mm, dd, yy are the groups 1, 2, 3.  Of the four footnote glyphs only "*"
\* is an ASCII character; the lines of the model are ASCII.
date_token ==
    Cat(<< Alt(<< Bol, Space >>),
           Grp(1, Alt(<< Cat(<< Lit("0"), Set(Digits \ {"0"}) >>),
                         Cat(<< Lit("1"), Set({"0", "1", "2"}) >>) >>)),
           Lit("/"),
           Grp(2, Alt(<< Cat(<< Lit("0"), Set(Digits \ {"0"}) >>),
                         Cat(<< Set({"1", "2"}), Digit >>),
                         Cat(<< Lit("3"), Set({"0", "1"}) >>) >>)),
           Opt(Cat(<< Lit("/"), Grp(3, Rep(Digit, 2, 4)) >>)),
           Opt(Set({"*"})),
           Ahead(Alt(<< NonDigit, Eol >>)) >>)
\* \bNEW\s+BALANCE\b   (re.I)
nb_re == Cat(<< WordB, LitI("NEW"), Plus(Space), LitI("BALANCE"), WordB >>)
\* \bPREVIOUS\s+BALANCE\b, \bBALANCE\s+FROM\s+LAST\s+STATEMENT\b,
\* \bPRIOR\s+BALANCE\b   (re.I)
pb_res ==
    << Cat(<< WordB, LitI("PREVIOUS"), Plus(Space), LitI("BALANCE"), WordB >>),
       Cat(<< WordB, LitI("BALANCE"), Plus(Space), LitI("FROM"), Plus(Space),
              LitI("LAST"), Plus(Space), LitI("STATEMENT"), WordB >>),
       Cat(<< WordB, LitI("PRIOR"), Plus(Space), LitI("BALANCE"), WordB >>) >>
\* ^\s*(TRANSACTIONS\s+THIS\s+CYCLE|INCLUDING\s+PAYMENTS\s+RECEIVED|TOTAL|SUBTOTAL)\b
summary_guard ==
    Cat(<< Bol, Star(Space),
           Alt(<< Cat(<< LitI("TRANSACTIONS"), Plus(Space), LitI("THIS"),
                         Plus(Space), LitI("CYCLE") >>),
                  Cat(<< LitI("INCLUDING"), Plus(Space), LitI("PAYMENTS"),
                         Plus(Space), LitI("RECEIVED") >>),
                  LitI("TOTAL"),
                  LitI("SUBTOTAL") >>),
           WordB >>)
\* \bPage\s+\d+\s+of\s+\d+\b   (re.I), matched from left to right.  The
\* classes that follow one another in it have no character in common, so
\* every run is taken whole and there is one way at most to match at a
\* position.  A position 0 says that the match has failed already.
\* The end of the run of characters of cls from i on; i when there is none
RECURSIVE RunEnd(_, _, _)
RunEnd(cls, s, i) ==
    IF i <= Len(s) /\ Ch(s, i) \in cls THEN RunEnd(cls, s, i + 1) ELSE i
\* cls+ at i: the position after it
SkipRun(cls, s, i) ==
    IF i = 0 \/ RunEnd(cls, s, i) = i THEN 0 ELSE RunEnd(cls, s, i)
\* a word, letter by letter the set of its two cases
word_page == [d \in 1..4 |-> BothCases(Ch("Page", d))]
word_of == [d \in 1..2 |-> BothCases(Ch("of", d))]
\* the word w at i, in either case: the position after it
SkipWord(w, s, i) ==
    IF i = 0 \/ i + Len(w) - 1 > Len(s) THEN 0
    ELSE IF \A d \in 1..Len(w) : Ch(s, i + d - 1) \in w[d]
         THEN i + Len(w) ELSE 0
\* \b at i, after a digit
EndOfWord(s, i) == IF i = 0 \/ IsWordAt(s, i) THEN 0 ELSE i
\* The position after the match of the pattern at i, 0 without a match:
\* a match starts with a "P" or "p" that no word character precedes
PageEnd(s, i) ==
    IF Ch(s, i) \notin word_page[1] \/ IsWordAt(s, i - 1) THEN 0
    ELSE EndOfWord(s,
           SkipRun(Digits, s,
             SkipRun(Whitespace, s,
               SkipWord(word_of, s,
                 SkipRun(Whitespace, s,
                   SkipRun(Digits, s,
                     SkipRun(Whitespace, s,
                       SkipWord(word_page, s, i))))))))

\* The first position from i on where the pattern matches, Len(s) + 1 when
\* there is none
RECURSIVE NextPage(_, _)
NextPage(s, i) ==
    IF i > Len(s) THEN i
    ELSE IF PageEnd(s, i) # 0 THEN i
    ELSE NextPage(s, i + 1)

\* re.sub(pattern, "", s): s from position i on without the matches, the
\* next of which starts at j
RECURSIVE CutPages(_, _, _)
CutPages(s, i, j) ==
    IF j > Len(s) THEN SubSeq(s, i, Len(s))
    ELSE SubSeq(s, i, j - 1)
         \o CutPages(s, PageEnd(s, j), NextPage(s, PageEnd(s, j)))
SubPages(s) == CutPages(s, 1, NextPage(s, 1))

\* The first position from i on that holds whitespace, or does not
\* (blank = FALSE); Len(s) + 1 when there is none
RECURSIVE NextWhere(_, _, _)
NextWhere(s, i, blank) ==
    IF i > Len(s) THEN i
    ELSE IF (Ch(s, i) \in Whitespace) = blank THEN i
    ELSE NextWhere(s, i + 1, blank)

\* re.sub(r"\s+", " ", s): s from position i on, the next run of whitespace
\* starting at j
RECURSIVE CollapseFrom(_, _, _)
CollapseFrom(s, i, j) ==
    IF j > Len(s) THEN SubSeq(s, i, Len(s))
    ELSE SubSeq(s, i, j - 1) \o " "
         \o CollapseFrom(s, NextWhere(s, j, FALSE),
                         NextWhere(s, NextWhere(s, j, FALSE), TRUE))
Collapse(s) == CollapseFrom(s, 1, NextWhere(s, 1, TRUE))

\* The last position up to i that holds no whitespace, 0 when there is none
RECURSIVE LastNonBlank(_, _)
LastNonBlank(s, i) ==
    IF i < 1 THEN 0
    ELSE IF Ch(s, i) \notin Whitespace THEN i
    ELSE LastNonBlank(s, i - 1)

\* s.strip(), found from the two ends
Trim(s) == SubSeq(s, NextWhere(s, 1, FALSE), LastNonBlank(s, Len(s)))

clean_text(s) == Trim(Collapse(SubPages(s)))

\* " ".join(lines)
RECURSIVE JoinSpace(_)
JoinSpace(lines) ==
    IF Len(lines) = 0 THEN ""
    ELSE IF Len(lines) = 1 THEN lines[1]
    ELSE lines[1] \o " " \o JoinSpace(Tail(lines))

\* The statement text is read line by line; each line is drawn from
\* CcRawLines, at most MaxCcLines of them.
MaxCcLines == 4

CcRawLines ==
    { "NEW BALANCE $150.00",
      "Previous Balance 100.00",
      "New Balance (5.00",
      "Prior Balance 5.00 New Balance 7.00",
      "07/15 TEA 4.00",
      "07/16/24* INK",
      "AT 07/17/2022 30.00  ",
      "02/30 BAD 9.00",
      "REF -6.00",
      "FEE 3.00 Page 2 of 5",
      "SEATTLE  WA",
      "TOTAL 07/18 8.00",
      "Subtotal 12.00" }

\* m_amt = amt_re.search(ln); v = _norm_amount(m_amt.group(0)): the value
\* of the first amount on the line, None without an amount or with one
\* that is no number
FirstAmount(m, l) == IF m.ok THEN norm_amount(Group0(m, l)) ELSE None

\* What the patterns find in one line
CcScan(l) ==
    [ dm        |-> ReSearch(date_token, l),
      nb        |-> ReSearch(nb_re, l).ok,
      pb        |-> \E k \in 1..Len(pb_res) : ReSearch(pb_res[k], l).ok,
      first_val |-> FirstAmount(ReSearch(AMOUNT_RE, l), l),
      summary   |-> ReSearch(summary_guard, l).ok ]

CcLines == CcRawLines \cup {RStrip(raw) : raw \in CcRawLines}
CcScanOf == [l \in CcLines |-> CcScan(l)]

\* The lines of a block in the order flush() looks for an amount:
\* (current_lines[-1], current_lines[0], *reversed(current_lines))
Reversed(lines) == [i \in 1..Len(lines) |-> lines[Len(lines) + 1 - i]]
\* Seeded fault: the remaining lines gone through from first to last
SearchOrder_Forward(lines) == << lines[Len(lines)], lines[1] >> \o lines
SearchOrder(lines) == << lines[Len(lines)], lines[1] >> \o Reversed(lines)

\* The first amount that parses, going through the lines in that order
RECURSIVE FirstParsed(_)
FirstParsed(order) ==
    IF Len(order) = 0 THEN None
    ELSE IF IsSome(CcScanOf[Head(order)].first_val)
         THEN CcScanOf[Head(order)].first_val
         ELSE FirstParsed(Tail(order))

\* flush(): the list txs after it
Flushed(cd, cl, list) ==
    IF IsNone(cd) \/ Len(cl) = 0 THEN list
    ELSE IF IsSome(FirstParsed(SearchOrder(cl)))
         THEN Append(list, [ Date   |-> Val(cd),
                             Amount |-> Val(FirstParsed(SearchOrder(cl))),
                             Desc   |-> clean_text(JoinSpace(cl)) ])
         ELSE list

\* yy of a date token: 2000 + yy below 100, yy itself from 100 on, the
\* default year without one
TokenYear(m, l) ==
    IF IsSome(Group(m, l, 3))
    THEN (IF DigitsToInt(Val(Group(m, l, 3))) < 100
          THEN 2000 + DigitsToInt(Val(Group(m, l, 3)))
          ELSE DigitsToInt(Val(Group(m, l, 3))))
    ELSE default_year

\* Seeded fault: a later label line overwriting the new balance
ScanBalances_Overwrite(l, sc) ==
    /\ new_balance' = IF sc.nb /\ IsSome(sc.first_val)
                      THEN sc.first_val ELSE new_balance
    /\ prev_balance' = IF IsNone(prev_balance) /\ sc.pb /\ IsSome(sc.first_val)
                       THEN sc.first_val ELSE prev_balance
    /\ cc_ln' = l
    /\ cc_rule' = "balance"
    /\ UNCHANGED << cpc, first_tx_idx, cc_txs, current_date, current_lines >>

\* A line ahead of the first line with a date token: the balances
ScanBalances(l, sc) ==
    /\ new_balance' = IF IsNone(new_balance) /\ sc.nb /\ IsSome(sc.first_val)
                      THEN sc.first_val ELSE new_balance
    /\ prev_balance' = IF IsNone(prev_balance) /\ sc.pb /\ IsSome(sc.first_val)
                       THEN sc.first_val ELSE prev_balance
    /\ cc_ln' = l
    /\ cc_rule' = "balance"
    /\ UNCHANGED << cpc, first_tx_idx, cc_txs, current_date, current_lines >>

\* if summary_guard.search(ln): flush(); continue
OnSummary ==
    /\ cc_txs' = Flushed(current_date, current_lines, cc_txs)
    /\ current_date' = None
    /\ current_lines' = <<>>
    /\ cc_rule' = "summary"

\* if m: flush(); ...; current_date = datetime(yy, mm, dd).date(), or None;
\* current_lines = [ln]
OnDateToken(l, sc) ==
    /\ cc_txs' = Flushed(current_date, current_lines, cc_txs)
    /\ current_date' = MakeDate(TokenYear(sc.dm, l),
                                DigitsToInt(Val(Group(sc.dm, l, 1))),
                                DigitsToInt(Val(Group(sc.dm, l, 2))))
    /\ current_lines' = << l >>
    /\ cc_rule' = "date"

\* Seeded fault: a line without date token appended whether or not a block
\* is open
OnOtherLine_Always(l) ==
    /\ current_lines' = Append(current_lines, l)
    /\ cc_rule' = "appended"
    /\ UNCHANGED << cc_txs, current_date >>

\* else: if current_date is not None: current_lines.append(ln)
OnOtherLine(l) ==
    /\ current_lines' = IF IsSome(current_date) THEN Append(current_lines, l)
                        ELSE current_lines
    /\ cc_rule' = IF IsSome(current_date) THEN "appended" ELSE "skipped"
    /\ UNCHANGED << cc_txs, current_date >>

\* Seeded fault: the date token looked for ahead of the summary guard
CcLoopBody_DateFirst(l, sc) ==
    /\ cc_ln' = l
    /\ IF sc.dm.ok THEN OnDateToken(l, sc)
       ELSE IF sc.summary THEN OnSummary
       ELSE OnOtherLine(l)
    /\ UNCHANGED << new_balance, prev_balance >>

\* The body of the loop over lines[first_tx_idx:], for the line l
CcLoopBody(l, sc) ==
    /\ cc_ln' = l
    /\ IF sc.summary THEN OnSummary
       ELSE IF sc.dm.ok THEN OnDateToken(l, sc)
       ELSE OnOtherLine(l)
    /\ UNCHANGED << new_balance, prev_balance >>

\* The line raw is read.  Ahead of the first line with a date token the
\* lines take part in the scan for the balances only; the first line with
\* a date token is lines[first_tx_idx], and from it on the lines go through
\* the loop.
CcReadLine(raw) ==
    /\ cpc \in {"scanning", "blocks"}
    /\ cc_nread < MaxCcLines
    /\ cc_nread' = cc_nread + 1
    /\ IF cpc = "scanning" /\ ~CcScanOf[raw].dm.ok
       THEN ScanBalances(raw, CcScanOf[raw])
       ELSE /\ cpc' = "blocks"
            /\ first_tx_idx' = IF cpc = "scanning" THEN Some(cc_nread)
                               ELSE first_tx_idx
            /\ CcLoopBody(RStrip(raw), CcScanOf[RStrip(raw)])
    /\ UNCHANGED << parservars, mainvars, amountvars, runvars >>

\* The end of the text: without a line with a date token the empty list is
\* returned with the balances, else the last block is flushed
CcEndOfInput ==
    /\ cpc \in {"scanning", "blocks"}
    /\ cpc' = "returned"
    /\ cc_txs' = IF cpc = "scanning" THEN <<>>
                 ELSE Flushed(current_date, current_lines, cc_txs)
    /\ current_date' = None
    /\ current_lines' = <<>>
    /\ cc_rule' = "end"
    /\ UNCHANGED << cc_nread, cc_ln, first_tx_idx, new_balance, prev_balance >>
    /\ UNCHANGED << parservars, mainvars, amountvars, runvars >>

InitCc ==
    /\ default_year = 2023
    /\ ParserIdle
    /\ MainIdle
    /\ AmountIdle
    /\ RunIdle
    /\ cpc = "scanning"
    /\ cc_nread = 0
    /\ cc_ln = ""
    /\ cc_rule = "start"
    /\ first_tx_idx = None
    /\ new_balance = None
    /\ prev_balance = None
    /\ cc_txs = <<>>
    /\ current_date = None
    /\ current_lines = <<>>

NextCc ==
    \/ \E raw \in CcRawLines : CcReadLine(raw)
    \/ CcEndOfInput

SpecCc == InitCc /\ [][NextCc]_vars

(***************************************************************************)
(* main: the whole run.  The texts of the statements are parsed already;   *)
(* what the two parsers returned is part of the initial state.  The run is *)
(* one without --verbose.                                                  *)
(***************************************************************************)
\* math.isclose(a, b, abs_tol=0.01) for amounts of either sign: the doubles
\* of -a and -b are those of a and b with the sign changed.
isclose_signed(a, b) == IF a < 0 /\ b < 0 THEN isclose(0 - a, 0 - b) ELSE isclose(a, b)

\* f"{x:.2f}" for x of c cents, of either sign
Fixed2Signed(c) == IF c < 0 THEN "-" \o Fixed2(0 - c) ELSE Fixed2(c)

\* sum(float(t["Amount"]) for t in cc_txs), rounded to two places: in cents
\* the sum is whole already
RECURSIVE SumAmounts(_)
SumAmounts(amounts) ==
    IF Len(amounts) = 0 THEN 0 ELSE Head(amounts) + SumAmounts(Tail(amounts))

\* lhs = round(float(previous_balance) + sum_all, 2) for the block b
Lhs(b) == Val(b.previous_balance) + SumAmounts(b.cc_txs)

\* nb_str and pb_str
BalanceStr(bal) == IF IsSome(bal) THEN "$" \o Fixed2Signed(Val(bal)) ELSE "(not found)"

\* The lines printed for a block up to the check.  The source writes the
\* Greek capital sigma where the model writes "Sigma", and a long dash
\* where the model writes "--".
BlockDigitsLine(b) ==
    "[INFO] Block digits: " \o b.digits \o " at header row " \o b.header_row
CardLines(b) ==
    << BlockDigitsLine(b),
       "[INFO] Card " \o b.digits \o ": using PDF " \o Val(b.pdf),
       "[INFO] Card " \o b.digits \o ": parsed " \o IntToStr(Len(b.cc_txs))
           \o " transactions.",
       "[CARD " \o b.digits \o "] Previous Balance (PDF): "
           \o BalanceStr(b.previous_balance),
       "[CARD " \o b.digits \o "] New Balance (PDF)    : " \o BalanceStr(b.new_balance),
       "[CARD " \o b.digits \o "] Sigma(all amounts)       : $"
           \o Fixed2Signed(SumAmounts(b.cc_txs)),
       "[CARD " \o b.digits \o "] Check: Previous + Sigma(amounts) == New" >>

\* msg of a block with a balance not found
MissingNames(b) ==
    IF IsNone(b.previous_balance) /\ IsNone(b.new_balance) THEN "Previous and New"
    ELSE IF IsNone(b.previous_balance) THEN "Previous"
    ELSE "New"
MissingMsg(b) ==
    "Missing " \o MissingNames(b) \o " balance(s) for *" \o b.digits
    \o "*; cannot validate."
\* msg of a block whose balances do not add up
FailedMsg(b) ==
    "Validation failed for *" \o b.digits \o "*: Previous ($"
    \o Fixed2Signed(Val(b.previous_balance)) \o ") + Sigma($"
    \o Fixed2Signed(SumAmounts(b.cc_txs)) \o ") = $" \o Fixed2Signed(Lhs(b))
    \o " != New ($" \o Fixed2Signed(Val(b.new_balance)) \o ")"
\* print("[WARN]", msg, "-- continuing due to --force.")
ForcedLine(msg) == "[WARN] " \o msg \o " -- continuing due to --force."

\* dest_excel.write_bytes(template.read_bytes()) unless --dry-run;
\* wb = load_workbook(dest_excel); on to the checking statement if there is
\* one, else to the credit cards
MainStart ==
    /\ mpc = "start"
    /\ dest_file' = IF dry_run THEN dest_file ELSE "template"
    /\ mpc' = IF has_checking THEN "parsed" ELSE "cards"
    /\ UNCHANGED << parservars, amountvars, ccvars, force, sums_from_data, mismatches,
                    stdout, error, dry_run, has_checking, has_cc_sheet, blocks, blk,
                    written, cc_checks >>

\* The bank register is filled in
MainRegister ==
    /\ mpc \in {"warned", "reconciled"}
    /\ mpc' = "cards"
    /\ UNCHANGED << parservars, amountvars, ccvars, runvars, force, sums_from_data,
                    mismatches, stdout, error >>

\* if "Credit Card Register-Corp" in wb.sheetnames: blocks = scan_cc_blocks(ws_cc)
\* else: the sheet is missing and the credit cards are left out
MainCards ==
    /\ mpc = "cards"
    /\ stdout' = Append(stdout,
                   IF has_cc_sheet
                   THEN "[INFO] Credit-card blocks found: " \o IntToStr(Len(blocks))
                   ELSE "[WARN] Sheet 'Credit Card Register-Corp' not found; skipping CC population.")
    /\ mpc' = IF has_cc_sheet THEN "blocks" ELSE "saving"
    /\ UNCHANGED << parservars, amountvars, ccvars, runvars, force, sums_from_data,
                    mismatches, error >>

\* One pass of the loop over the blocks leaves these alone
BlockFrame ==
    UNCHANGED << parservars, amountvars, ccvars, force, sums_from_data, mismatches,
                 dry_run, has_checking, has_cc_sheet, blocks, dest_file >>

\* if not pdf: print(...); continue
BlockNoPdf(b) ==
    /\ IsNone(b.pdf)
    /\ stdout' = stdout \o << BlockDigitsLine(b),
                              "[WARN] No PDF found in folder for card *" \o b.digits
                                  \o ". Skipping." >>
    /\ cc_checks' = Append(cc_checks, "no_pdf")
    /\ mpc' = "blocks"
    /\ UNCHANGED << error, written >>

\* Seeded fault: a block whose check fails going on without --force
BlockFailed_NeverRaises(b, msg, how) ==
    /\ cc_checks' = Append(cc_checks, how)
    /\ stdout' = stdout \o CardLines(b) \o << ForcedLine(msg) >>
    /\ written' = Append(written, blk + 1)
    /\ mpc' = "blocks"
    /\ UNCHANGED error

\* if not args.force: raise AssertionError(msg)
\* else: print("[WARN]", msg, ...), and the block is written
BlockFailed(b, msg, how) ==
    /\ cc_checks' = Append(cc_checks, how)
    /\ IF force
       THEN /\ stdout' = stdout \o CardLines(b) \o << ForcedLine(msg) >>
            /\ written' = Append(written, blk + 1)
            /\ mpc' = "blocks"
            /\ UNCHANGED error
       ELSE /\ stdout' = stdout \o CardLines(b)
            /\ error' = Some(msg)
            /\ mpc' = "raised"
            /\ UNCHANGED written

\* if (new_balance is None) or (previous_balance is None): ...
BlockMissing(b) ==
    /\ IsSome(b.pdf)
    /\ IsNone(b.new_balance) \/ IsNone(b.previous_balance)
    /\ BlockFailed(b, MissingMsg(b), "missing")

\* else: if not isclose(lhs, rhs, abs_tol=0.01): ...
BlockMismatch(b) ==
    /\ IsSome(b.pdf)
    /\ IsSome(b.new_balance) /\ IsSome(b.previous_balance)
    /\ ~isclose_signed(Lhs(b), Val(b.new_balance))
    /\ BlockFailed(b, FailedMsg(b), "failed")

\* the balances add up: write_cc_block(...)
BlockPassed(b) ==
    /\ IsSome(b.pdf)
    /\ IsSome(b.new_balance) /\ IsSome(b.previous_balance)
    /\ isclose_signed(Lhs(b), Val(b.new_balance))
    /\ cc_checks' = Append(cc_checks, "passed")
    /\ stdout' = stdout \o CardLines(b)
    /\ written' = Append(written, blk + 1)
    /\ mpc' = "blocks"
    /\ UNCHANGED error

\* for blk in blocks: the next block
MainBlock ==
    /\ mpc = "blocks"
    /\ blk < Len(blocks)
    /\ blk' = blk + 1
    /\ \/ BlockNoPdf(blocks[blk + 1])
       \/ BlockMissing(blocks[blk + 1])
       \/ BlockMismatch(blocks[blk + 1])
       \/ BlockPassed(blocks[blk + 1])
    /\ BlockFrame

\* the loop is over
MainBlocksDone ==
    /\ mpc = "blocks"
    /\ blk = Len(blocks)
    /\ mpc' = "saving"
    /\ UNCHANGED << parservars, amountvars, ccvars, runvars, force, sums_from_data,
                    mismatches, stdout, error >>

\* if not args.dry_run: wb.save(dest_excel); print(...)  else: print(...)
MainSave ==
    /\ mpc = "saving"
    /\ dest_file' = IF dry_run THEN dest_file ELSE "saved"
    /\ stdout' = Append(stdout, IF dry_run THEN "[DRY-RUN] No files written."
                                ELSE "Workbook updated: dest_excel")
    /\ mpc' = "finished"
    /\ UNCHANGED << parservars, amountvars, ccvars, force, sums_from_data, mismatches,
                    error, dry_run, has_checking, has_cc_sheet, blocks, blk, written,
                    cc_checks >>

\* What the run may start from.  The checking statement gave no
\* transaction, or one of 30.01 under a printed total of 30.01 or of 32.00.
\* Each block of the sheet has the last digits of a card, and either no PDF
\* or what the credit-card parser returned for it.
MaxBlocks == 2
RunParsed ==
    { [txs |-> <<>>, totals |-> [sec \in Sections |-> 0]],
      [txs |-> << ParsedTx("deposit", 3001) >>,
       totals |-> [sec \in Sections |-> IF sec = "deposit" THEN 3001 ELSE 0]],
      [txs |-> << ParsedTx("deposit", 3001) >>,
       totals |-> [sec \in Sections |-> IF sec = "deposit" THEN 3200 ELSE 0]] }
Block(digits, pdf, amounts, pb, nb) ==
    [ digits |-> digits, header_row |-> "3", pdf |-> pdf, cc_txs |-> amounts,
      previous_balance |-> pb, new_balance |-> nb ]
BlockInputs ==
    { Block("1111", None, <<>>, None, None),
      Block("2222", Some("2222.pdf"), << 4530 >>, Some(12000), Some(16530)),
      Block("3333", Some("3333.pdf"), << 4530, 0 - 2000 >>, Some(12000), Some(17000)),
      Block("4444", Some("4444.pdf"), << 4530 >>, Some(12000), Some(16531)),
      Block("5555", Some("5555.pdf"), << 4530 >>, Some(12000), Some(16529)),
      Block("6666", Some("6666.pdf"), << 0 - 500 >>, Some(0 - 2000), Some(0 - 2500)),
      Block("7777", Some("7777.pdf"), << 4530 >>, None, Some(16530)),
      Block("8888", Some("8888.pdf"), << 4530 >>, Some(12000), None),
      Block("9999", Some("9999.pdf"), <<>>, None, None) }
BlockLists == UNION { [1..n -> BlockInputs] : n \in 0..MaxBlocks }

InitRun ==
    /\ default_year = 2023
    /\ pc = "done"
    /\ nread = 0
    /\ ln = ""
    /\ rule = "end"
    /\ section = NoSection
    /\ current = None
    /\ pending_header = None
    /\ has_checking \in BOOLEAN
    /\ \E r \in RunParsed :
          /\ has_checking \/ r.txs = <<>>
          /\ transactions = r.txs
          /\ pdf_totals = r.totals
    /\ unparsed = [sec \in Sections |-> <<>>]
    /\ total_seen = {sec \in Sections : pdf_totals[sec] # 0}
    /\ AmountIdle
    /\ CcIdle
    /\ force \in BOOLEAN
    /\ dry_run \in BOOLEAN
    /\ has_cc_sheet \in BOOLEAN
    /\ blocks \in BlockLists
    /\ has_cc_sheet \/ blocks = <<>>
    /\ blk = 0
    /\ written = <<>>
    /\ dest_file \in {"absent", "old"}
    /\ cc_checks = <<>>
    /\ mpc = "start"
    /\ sums_from_data = [sec \in Sections |-> 0]
    /\ mismatches = <<>>
    /\ stdout = <<>>
    /\ error = None

NextRun ==
    \/ MainStart
    \/ MainSums
    \/ MainRaise
    \/ MainWarn
    \/ MainProceed
    \/ MainRegister
    \/ MainCards
    \/ MainBlock
    \/ MainBlocksDone
    \/ MainSave

SpecRun == InitRun /\ [][NextRun]_vars

(***************************************************************************)
(* Properties of the checking parser                                       *)
(***************************************************************************)
\* A step of the loop: ln' is the line read, ScanOf[ln'] what matches in it
LineRead == pc = "reading" /\ nread' = nread + 1

\* The line is a balance marker, a section marker or a TOTAL line
IsMarker(l) ==
    ScanOf[l].daily \/ ScanOf[l].deposits \/ ScanOf[l].withdrawals
    \/ ScanOf[l].fees \/ ScanOf[l].total

\* a is the beginning of b
IsPrefix(a, b) == Len(a) <= Len(b) /\ SubSeq(b, 1, Len(a)) = a

\* txs2 is txs with the open record cur, if there is one, closed into it
Closes(cur, txs, txs2) ==
    IF IsSome(cur) THEN txs2 = Append(txs, Finalized(Val(cur))) ELSE txs2 = txs

\* month and day are a day of the calendar of year y
ValidDate(y, m, d) == m \in 1..12 /\ d \in 1..DaysInMonth(y, m)

\* The number in group g of the match m in l
GroupInt(m, l, g) == DigitsToInt(Val(Group(m, l, g)))

\* Year, month and day of a header match m whose date tokens are groups
\* 1..3 and 4..6: month and day of the second token where the match took
\* one, the year the second token's, else the first's, else the default
MatchMonth(m, l) == IF IsSome(Group(m, l, 4)) THEN GroupInt(m, l, 4) ELSE GroupInt(m, l, 1)
MatchDay(m, l) == IF IsSome(Group(m, l, 5)) THEN GroupInt(m, l, 5) ELSE GroupInt(m, l, 2)
MatchYear(m, l) ==
    IF IsSome(Group(m, l, 6)) THEN GroupInt(m, l, 6)
    ELSE IF IsSome(Group(m, l, 3)) THEN GroupInt(m, l, 3)
    ELSE default_year

\* Two date tokens lead the line
two_dates == Cat(<< Bol, Star(Space), date_re(1), Plus(Space), date_re(4) >>)
LeadMonth(l) ==
    IF ReMatch(two_dates, l).ok THEN GroupInt(ReMatch(two_dates, l), l, 4)
    ELSE GroupInt(ScanOf[l].strict, l, 1)
LeadDay(l) ==
    IF ReMatch(two_dates, l).ok THEN GroupInt(ReMatch(two_dates, l), l, 5)
    ELSE GroupInt(ScanOf[l].strict, l, 2)

LooseRules == {"loose", "loose_no_date", "loose_bad_amount", "loose_bad_date"}

\* The line read is a strict header at a place where headers are looked for
StrictHeaderRead ==
    /\ LineRead
    /\ section # NoSection
    /\ IsNone(pending_header)
    /\ ~IsMarker(ln')
    /\ ScanOf[ln'].strict.ok

\* The record open after the step has the line's trailing amount, the
\* active section, and month mm and day dd
OpensRecord(mm, dd) ==
    /\ Closes(current, transactions, transactions')
    /\ IsSome(current')
    /\ IsSome(ScanOf[ln'].trailing_val)
    /\ Val(current').Amount = Val(ScanOf[ln'].trailing_val)
    /\ Val(current').Section = section
    /\ Val(current').Date.m = mm
    /\ Val(current').Date.d = dd
    /\ IsNone(pending_header')
    /\ unparsed' = unparsed

\* C1 (as amended): with a section active and no pending header, a line that
\* is no marker, matches the strict header grammar with a valid calendar date
\* and has a trailing amount that parses as a number finalizes the open
\* record, if any, and opens exactly one new record with that amount, the
\* active section, and month/day of the second date token where the match
\* took a second date token, else of the first; and a line matching the
\* strict grammar is never handled by the loose-header rule.
C1_StrictHeaderOpensRecord ==
    [][ /\ ( /\ StrictHeaderRead
             /\ ValidDate(MatchYear(ScanOf[ln'].strict, ln'),
                          MatchMonth(ScanOf[ln'].strict, ln'),
                          MatchDay(ScanOf[ln'].strict, ln'))
             /\ IsSome(ScanOf[ln'].strict_val) )
           => OpensRecord(MatchMonth(ScanOf[ln'].strict, ln'),
                          MatchDay(ScanOf[ln'].strict, ln'))
        /\ (LineRead /\ ScanOf[ln'].strict.ok) => rule' \notin LooseRules
      ]_vars

\* C1, reached: a strict header with two date tokens has closed one record
\* and opened the next, dated by its second token
C1_Witness ==
    /\ rule = "strict"
    /\ IsSome(Group(ScanOf[ln].strict, ln, 4))
    /\ Len(transactions) = 1
    /\ IsSome(current)
    /\ Val(current).Date.m = 8

\* C1 as stated: any line matching the strict grammar with a valid date
\* opens a record with the trailing amount, dated by the second date token
\* whenever two date tokens lead the line.
C1_AsStated ==
    [][ /\ ( /\ StrictHeaderRead
             /\ ValidDate(MatchYear(ScanOf[ln'].strict, ln'), LeadMonth(ln'),
                          LeadDay(ln')) )
           => OpensRecord(LeadMonth(ln'), LeadDay(ln'))
        /\ (LineRead /\ ScanOf[ln'].strict.ok) => rule' \notin LooseRules
      ]_vars

\* A line is read while a pending header exists, and is no marker
PendingLineRead == LineRead /\ IsSome(pending_header) /\ ~IsMarker(ln')

\* The first amount found on the line parses as a number
FirstAmountParses(l) ==
    ScanOf[l].in_clipped.first_amt.ok /\ IsSome(ScanOf[l].in_clipped.first_val)

\* The pending-header rule with `text` as what it keeps of the line
PendingRule(text) ==
    /\ rule' \in {"pending_amount", "pending_append"}
    /\ transactions' = transactions
    /\ unparsed' = unparsed
    /\ IF FirstAmountParses(ln')
       THEN /\ IsSome(current')
            /\ Val(current').Date = Val(pending_header).date
            /\ Val(current').Section = Val(pending_header).section
            /\ Val(current').Amount = Val(ScanOf[ln'].in_clipped.first_val)
            /\ Val(current').desc_lines = << Val(pending_header).desc, text >>
            /\ IsNone(pending_header')
       ELSE /\ IsSome(pending_header')
            /\ Val(pending_header') =
                 [Val(pending_header) EXCEPT !.desc = @ \o " " \o text]
            /\ current' = current

\* C2 (as amended): while a pending header exists, every line that is no
\* marker is consumed by the pending-header rule before any header grammar
\* is tried.  If the first amount on the line parses, one record is opened
\* with the pending header's date and section, that amount, and a
\* description holding the pending text and the line's text up to and
\* including that first amount, and the pending header is cleared;
\* otherwise the line's text up to and including its first amount-shaped
\* token is appended to the pending description, the pending header stays,
\* and no transaction is emitted.
C2_PendingHeaderConsumes ==
    [][ PendingLineRead => PendingRule(ScanOf[ln'].clipped) ]_vars

\* C2, reached: a line with text after its amount has completed a pending
\* header
C2_Witness ==
    /\ rule = "pending_amount"
    /\ ln = "REF 4.00 EXTRA"
    /\ IsSome(current)
    /\ Val(current).desc_lines = << "PAYROLL FUNDING", "REF 4.00" >>

\* C2 as stated: the description holds the pending text and the line's text,
\* or else the line is appended to the pending description.
C2_AsStated ==
    [][ PendingLineRead => PendingRule(ln') ]_vars

\* C3: with a section active, no open record and no pending header, a line
\* that is no marker and matches none of the three header grammars is
\* appended, trimmed and otherwise as it is, to the active section's
\* unparsed list; and no step removes or changes what an unparsed list holds.
C3_UnrecognisedLineKept ==
    [][ /\ ( /\ LineRead
             /\ section # NoSection
             /\ IsNone(current)
             /\ IsNone(pending_header)
             /\ ~IsMarker(ln')
             /\ ~ScanOf[ln'].strict.ok
             /\ ~ScanOf[ln'].no_amt.ok
             /\ ~ScanOf[ln'].loose.ok )
           => /\ unparsed' = [unparsed EXCEPT ![section] = Append(@, ln')]
              /\ ln' = Strip(ln')
        /\ \A sec \in Sections : IsPrefix(unparsed[sec], unparsed'[sec])
      ]_vars

\* C3, reached: a line given with blanks around it is in the returned
\* unparsed list without them
C3_Witness ==
    /\ pc = "done"
    /\ section = "fee"
    /\ unparsed["fee"] = << "500.00", "TRACE 123" >>

\* The texts the parser holds: the description lines of the returned and of
\* the open record, the unparsed lines, the pending description
HeldIn(txs, cur, unp) ==
    UNION { {txs[i].desc_lines[j] : j \in 1..Len(txs[i].desc_lines)} : i \in 1..Len(txs) }
    \cup (IF IsSome(cur)
          THEN {Val(cur).desc_lines[j] : j \in 1..Len(Val(cur).desc_lines)}
          ELSE {})
    \cup UNION { {unp[sec][j] : j \in 1..Len(unp[sec])} : sec \in Sections }

\* C4 as stated: the text of a header-without-amount line and of the lines
\* accumulated into the pending header is not lost by any line that
\* follows: after every step it is still the beginning of the pending
\* description, or a description line of a record, or an unparsed line.
C4_NoLineDropped ==
    [][ (LineRead /\ IsSome(pending_header))
        => \/ /\ IsSome(pending_header')
              /\ IsPrefix(Val(pending_header).desc, Val(pending_header').desc)
           \/ Val(pending_header).desc \in HeldIn(transactions', current', unparsed')
      ]_vars

\* C5: at the end of input an open record is finalized into the transaction
\* list; an unresolved pending header adds its description to the unparsed
\* list of the section it was read in and yields no transaction; a pending
\* header is always of the section that is active.
C5_EndOfInput ==
    [][ /\ (pc = "reading" /\ pc' = "done")
           => /\ Closes(current, transactions, transactions')
              /\ IsNone(current')
              /\ IF IsSome(pending_header)
                 THEN /\ unparsed' = [unparsed EXCEPT ![Val(pending_header).section] =
                                         Append(@, Val(pending_header).desc)]
                      /\ transactions' = transactions
                 ELSE unparsed' = unparsed
        /\ IsSome(pending_header) => Val(pending_header).section = section
      ]_vars

\* C5, reached: the parse has returned with a pending header unresolved,
\* after a record
C5_Witness ==
    /\ pc = "done"
    /\ IsSome(pending_header)
    /\ Len(transactions) = 1
    /\ unparsed[section] = << Val(pending_header).desc >>

FinalizingRules ==
    { "daily", "section", "total", "strict", "strict_bad_date",
      "strict_bad_amount", "no_amt", "loose", "end" }

\* C6: every finalization of an open record appends exactly that record to
\* the end of the transaction list, also when an equal transaction is in
\* the list already; no other step changes the list, so the list at any
\* step is the beginning of the list at every later step.
C6_AppendOnly ==
    [][ /\ IsPrefix(transactions, transactions')
        /\ IF IsSome(current) /\ rule' \in FinalizingRules
           THEN transactions' = Append(transactions, Finalized(Val(current)))
           ELSE transactions' = transactions
      ]_vars

\* C6, reached: two equal transactions are in the returned list
C6_Witness ==
    /\ pc = "done"
    /\ Len(transactions) = 2
    /\ transactions[1] = transactions[2]

\* The line read is a header whose date is no day of the calendar
BadDateHeaderRead ==
    /\ LineRead
    /\ section # NoSection
    /\ IsNone(pending_header)
    /\ ~IsMarker(ln')
    /\ \/ /\ ScanOf[ln'].strict.ok
          /\ ~ValidDate(MatchYear(ScanOf[ln'].strict, ln'),
                        MatchMonth(ScanOf[ln'].strict, ln'),
                        MatchDay(ScanOf[ln'].strict, ln'))
       \/ /\ ~ScanOf[ln'].strict.ok
          /\ ScanOf[ln'].no_amt.ok
          /\ ~ValidDate(MatchYear(ScanOf[ln'].no_amt, ln'),
                        MatchMonth(ScanOf[ln'].no_amt, ln'),
                        MatchDay(ScanOf[ln'].no_amt, ln'))
       \/ /\ ~ScanOf[ln'].strict.ok
          /\ ~ScanOf[ln'].no_amt.ok
          /\ ScanOf[ln'].loose.ok
          /\ ScanOf[ln'].in_clipped.dmatch.ok
          /\ ~ValidDate(IF IsSome(Group(ScanOf[ln'].in_clipped.dmatch,
                                        ScanOf[ln'].clipped, 3))
                        THEN GroupInt(ScanOf[ln'].in_clipped.dmatch,
                                      ScanOf[ln'].clipped, 3)
                        ELSE default_year,
                        GroupInt(ScanOf[ln'].in_clipped.dmatch, ScanOf[ln'].clipped, 1),
                        GroupInt(ScanOf[ln'].in_clipped.dmatch, ScanOf[ln'].clipped, 2))

\* C7: with a section active and no pending header, a header line (strict,
\* header-without-amount or loose, and no marker) whose month/day is no
\* valid calendar date in the resolved year opens no record and no pending
\* header and is appended to the active section's unparsed list, and the
\* parse goes on to the next line.
C7_BadDateUnparsed ==
    [][ BadDateHeaderRead
        => /\ unparsed' = [unparsed EXCEPT ![section] = Append(@, ln')]
           /\ current' = None \/ current' = current
           /\ IsNone(pending_header')
           /\ transactions' = transactions
              \/ Closes(current, transactions, transactions')
           /\ pc' = "reading"
      ]_vars

\* C7, reached: 02/29 was read as a header in a year that has none, and the
\* parse went on
C7_Witness ==
    /\ pc = "done"
    /\ default_year = 2023
    /\ unparsed["deposit"] = << "02/29 LEAP 3.00", "02/30 PAYROLL" >>
    /\ transactions = <<>>

\* C8 (as amended): the parse result holds a total for each of the three
\* sections at all times, 0.00 from the start; a section's total is other
\* than 0.00 only if a TOTAL line was read while that section was active,
\* so a section with no TOTAL line has the total 0.00 that a printed total
\* of zero gives.
C8_TotalsDefaultZero ==
    /\ DOMAIN pdf_totals = Sections
    /\ \A sec \in Sections : pdf_totals[sec] # 0 => sec \in total_seen

\* C8, reached: a section with a printed total of zero and a section with
\* no TOTAL line, both returned with 0.00
C8_Witness ==
    /\ pc = "done"
    /\ \E s1 \in total_seen : \E s2 \in Sections \ total_seen :
         pdf_totals[s1] = 0 /\ pdf_totals[s2] = 0

\* C8 as stated: the result holds a total for a section only if a TOTAL
\* line was read while that section was active.
C8_AsStated ==
    pc = "done" => \A sec \in DOMAIN pdf_totals : sec \in total_seen

(***************************************************************************)
(* Properties of the reconciliation                                        *)
(***************************************************************************)
RECURSIVE Range(_)
Range(q) == IF Len(q) = 0 THEN {} ELSE {Head(q)} \cup Range(Tail(q))

\* C9 as stated: a section passes exactly when its printed total and the
\* sum of the absolute amounts of its transactions differ by at most one
\* cent, and there is no mismatch exactly when all three sections pass.
C9_WithinOneCent ==
    mpc \in {"summed", "raised", "warned", "reconciled"}
    => /\ \A sec \in Sections :
            sec \notin Range(mismatches)
            <=> Abs(pdf_totals[sec] - sums_from_data[sec]) <= 1
       /\ mismatches = <<>>
            <=> \A sec \in Sections : Abs(pdf_totals[sec] - sums_from_data[sec]) <= 1

\* sub occurs in text
Contains(text, sub) ==
    \E i \in 1..(Len(text) - Len(sub) + 1) : SubSeq(text, i, i + Len(sub) - 1) = sub

\* Everything main has put out: the lines printed and the error message
Output == Range(stdout) \cup (IF IsSome(error) THEN {Val(error)} ELSE {})

\* What the failure or the warning itself says
Diagnostic ==
    IF mpc = "raised" THEN Val(error) ELSE stdout[Len(stdout)]

SectionWord(sec) ==
    IF sec = "deposit" THEN "eposit" ELSE IF sec = "withdrawal" THEN "ithdrawal" ELSE "ee"

\* C10 as stated: on a mismatch the failure or warning names each
\* mismatching section, and that section's unparsed lines are all put out.
C10_DiagnosticContent ==
    mpc \in {"raised", "warned"}
    => \A sec \in Range(mismatches) :
         /\ Contains(Diagnostic, SectionWord(sec))
         /\ \A j \in 1..Len(unparsed[sec]) :
              \E out \in Output : Contains(out, unparsed[sec][j])

(***************************************************************************)
(* Markers and the idle state of the checking parser                       *)
(***************************************************************************)
\* The line is a section marker
IsSectionMarker(l) == ScanOf[l].deposits \/ ScanOf[l].withdrawals \/ ScanOf[l].fees

\* The section a section-marker line names
MarkerSection(l) ==
    IF ScanOf[l].deposits THEN "deposit"
    ELSE IF ScanOf[l].withdrawals THEN "withdrawal"
    ELSE "fee"

\* C18: a line containing the daily-ending-balance marker, in any state and
\* also when it matches a section marker, finalizes the open record, clears
\* the pending header and leaves no section active; from no section the
\* parser comes to a section only by a section-marker line that is no
\* balance marker.
C18_BalanceMarker ==
    [][ /\ (LineRead /\ ScanOf[ln'].daily)
           => /\ Closes(current, transactions, transactions')
              /\ IsNone(current')
              /\ IsNone(pending_header')
              /\ section' = NoSection
              /\ unparsed' = unparsed
              /\ pdf_totals' = pdf_totals
        /\ (section = NoSection /\ section' # NoSection)
           => /\ LineRead
              /\ IsSectionMarker(ln')
              /\ ~ScanOf[ln'].daily
              /\ section' = MarkerSection(ln')
      ]_vars

\* C18, reached: a line that is a balance marker and a section marker has
\* closed the open record and left no section active
C18_Witness ==
    /\ rule = "daily"
    /\ ln = "FEES DAILY ENDING BALANCE"
    /\ Len(transactions) = 1
    /\ section = NoSection
    /\ IsNone(current)

\* C19: while no section is active, every line that is no section marker
\* leaves the transaction list, the printed totals, the unparsed lists, the
\* open record and the pending header as they are, whatever it contains.
C19_IdleIgnores ==
    [][ (LineRead /\ section = NoSection /\ ~IsSectionMarker(ln'))
        => /\ transactions' = transactions
           /\ pdf_totals' = pdf_totals
           /\ unparsed' = unparsed
           /\ current' = current
           /\ pending_header' = pending_header
           /\ section' = NoSection
      ]_vars

\* C19, reached: three lines were read with no section active, the last of
\* them a TOTAL line, and nothing came of them
C19_Witness ==
    /\ pc = "done"
    /\ nread = 3
    /\ ln = "TOTAL 30.00"
    /\ rule = "end"
    /\ section = NoSection
    /\ transactions = <<>>
    /\ pdf_totals = [sec \in Sections |-> 0]
    /\ unparsed = [sec \in Sections |-> <<>>]

\* C20: a section-marker line (no balance marker) read in any state
\* finalizes the open record under the section it was opened in, makes the
\* marker's section the active one with no open record and no pending
\* header, and adds no unparsed entry; an open record and a pending header
\* are always of the active section, so every returned transaction has the
\* section that was active when its header line was read.
C20_SectionMarker ==
    [][ /\ (LineRead /\ IsSectionMarker(ln') /\ ~ScanOf[ln'].daily)
           => /\ Closes(current, transactions, transactions')
              /\ IsSome(current)
                 => transactions'[Len(transactions')].Section = section
              /\ section' = MarkerSection(ln')
              /\ IsNone(current')
              /\ IsNone(pending_header')
              /\ unparsed' = unparsed
              /\ pdf_totals' = pdf_totals
        /\ IsSome(current') => Val(current').Section = section'
        /\ IsSome(pending_header') => Val(pending_header').section = section'
      ]_vars

\* C20, reached: a record opened under one section was closed by the marker
\* of another
C20_Witness ==
    /\ rule = "section"
    /\ Len(transactions) = 1
    /\ section # NoSection
    /\ transactions[1].Section # section


(***************************************************************************)
(* Amount normalization                                                    *)
(***************************************************************************)
\* re.fullmatch(_AMOUNT_RE, tok): the token is one of the amount grammar
InAmountGrammar(tok) == ReMatch(Cat(<< AMOUNT_RE, Eol >>), tok).ok

\* The digits of a token, in order
RECURSIVE OnlyDigits(_)
OnlyDigits(tok) ==
    IF Len(tok) = 0 THEN ""
    ELSE (IF Ch(tok, 1) \in Digits THEN Ch(tok, 1) ELSE "") \o
         OnlyDigits(SubSeq(tok, 2, Len(tok)))

\* The magnitude a token writes, in cents: its digits read as one number
\* (the fraction has exactly two digits)
Magnitude(tok) == DigitsToInt(OnlyDigits(tok))

\* C16: for every token of the amount grammar, normalization returns a
\* number; it is the negated magnitude when the token starts with "(" or
\* with "-", and the magnitude otherwise.
C16_GrammarTokenNormalizes ==
    (apc = "returned" /\ InAmountGrammar(amt_token))
    => /\ IsSome(amt_value)
       /\ Val(amt_value) = IF StartsWith(amt_token, "(") \/ StartsWith(amt_token, "-")
                           THEN 0 - Magnitude(amt_token)
                           ELSE Magnitude(amt_token)


(***************************************************************************)
(* Year resolution                                                         *)
(***************************************************************************)
\* A date token with a year of two or of four digits leads the line:
\* ^\s*(\d\d)/(\d\d)/(\d{4}|\d{2})(?=\D|$)
year_token ==
    Cat(<< Bol, Star(Space), Grp(1, Rep(Digit, 2, 2)), Lit("/"),
           Grp(2, Rep(Digit, 2, 2)), Lit("/"),
           Grp(3, Alt(<< Rep(Digit, 4, 4), Rep(Digit, 2, 2) >>)),
           Ahead(Alt(<< NonDigit, Eol >>)) >>)

\* The year a token's year digits stand for: yy is 2000 + yy, yyyy is itself
ResolvedYear(digits) ==
    IF Len(digits) = 2 THEN 2000 + DigitsToInt(digits) ELSE DigitsToInt(digits)

\* C17 (checking parser): a record opened by a line that is led by a date
\* token with an explicit year of two or four digits is dated in that year,
\* 2000 + yy for two digits, and not in the default year.
C17_ExplicitYearUsed ==
    [][ (LineRead /\ ReMatch(year_token, ln').ok
           /\ rule' \in {"strict", "loose"} /\ IsSome(current'))
        => Val(current').Date.y = ResolvedYear(Val(Group(ReMatch(year_token, ln'), ln', 3)))
      ]_vars


(***************************************************************************)
(* The credit-card parser                                                  *)
(***************************************************************************)
\* A step of the credit-card parser that reads a line
CcLineRead == cpc \in {"scanning", "blocks"} /\ cc_nread' = cc_nread + 1

\* The line l sets a balance that is bal so far: no line with a date token
\* was read yet, l has none either, the balance is still absent, l holds
\* the label and the first amount on l parses
SetsBalance(bal, l, label) ==
    /\ IsNone(first_tx_idx)
    /\ ~CcScanOf[l].dm.ok
    /\ IsNone(bal)
    /\ label
    /\ IsSome(CcScanOf[l].first_val)

\* C13: a line sets new_balance exactly when it comes before the first line
\* with a date token, holds the new-balance label, has a first amount that
\* parses, and new_balance is still absent; the balance is then that first
\* amount.  The same goes for prev_balance and the previous-balance labels.
\* Nothing else changes a balance, and both start absent.
C13_BalancesBeforeFirstDate ==
    [][ /\ CcLineRead
           => /\ new_balance' =
                   IF SetsBalance(new_balance, cc_ln', CcScanOf[cc_ln'].nb)
                   THEN CcScanOf[cc_ln'].first_val ELSE new_balance
              /\ prev_balance' =
                   IF SetsBalance(prev_balance, cc_ln', CcScanOf[cc_ln'].pb)
                   THEN CcScanOf[cc_ln'].first_val ELSE prev_balance
        /\ ~CcLineRead => (new_balance' = new_balance /\ prev_balance' = prev_balance)
        /\ (cpc = "scanning" /\ cc_nread = 0)
           => (IsNone(new_balance) /\ IsNone(prev_balance))
      ]_vars

\* C13, reached: the first label line had an amount that is no number, the
\* second one set the new balance, and a line with both labels that came
\* after the first line with a date token set nothing
C13_Witness ==
    /\ cc_nread = 4
    /\ cc_ln = "Prior Balance 5.00 New Balance 7.00"
    /\ first_tx_idx = Some(2)
    /\ new_balance = Some(15000)
    /\ IsNone(prev_balance)


\* Month, day and year of the first date token of the line l
TokenMonth(l) == GroupInt(CcScanOf[l].dm, l, 1)
TokenDay(l) == GroupInt(CcScanOf[l].dm, l, 2)
TokenYearOf(l) ==
    IF IsSome(Group(CcScanOf[l].dm, l, 3))
    THEN ResolvedYear(Val(Group(CcScanOf[l].dm, l, 3)))
    ELSE default_year
\* The date the token stands for, None when it is no day of the calendar
TokenDate(l) ==
    IF ValidDate(TokenYearOf(l), TokenMonth(l), TokenDay(l))
    THEN Some([y |-> TokenYearOf(l), m |-> TokenMonth(l), d |-> TokenDay(l)])
    ELSE None

\* The step flushes the current block and starts one with the line read
StartsBlock ==
    /\ cc_txs' = Flushed(current_date, current_lines, cc_txs)
    /\ current_lines' = << cc_ln' >>
    /\ current_date' = TokenDate(cc_ln')

ParsesAt(cl, i) == IsSome(CcScanOf[cl[i]].first_val)
\* The amount of a block: that of its last line, else of its first line,
\* else of the last of the lines whose first amount parses; None without
\* such a line
BlockAmount(cl) ==
    IF ParsesAt(cl, Len(cl)) THEN CcScanOf[cl[Len(cl)]].first_val
    ELSE IF ParsesAt(cl, 1) THEN CcScanOf[cl[1]].first_val
    ELSE IF \E i \in 1..Len(cl) : ParsesAt(cl, i)
         THEN CcScanOf[cl[Max({i \in 1..Len(cl) : ParsesAt(cl, i)})]].first_val
         ELSE None

\* The step flushes: a line with a date token or, from the first such line
\* on, a summary line is read, or the text ends
FlushStep ==
    \/ /\ CcLineRead
       /\ \/ CcScanOf[cc_ln'].dm.ok
          \/ IsSome(first_tx_idx) /\ CcScanOf[cc_ln'].summary
    \/ cpc \in {"scanning", "blocks"} /\ cpc' = "returned"

\* C15: a flush of a block that has a date and a line whose first amount
\* parses appends exactly one transaction, with the block's date and the
\* amount found by looking at the last line, then the first, then the others
\* from last to first; any other flush, and any step that does not flush,
\* leaves the list of transactions as it is.
C15_FlushEmitsAtMostOne ==
    [][ IF /\ FlushStep
           /\ IsSome(current_date)
           /\ Len(current_lines) > 0
           /\ IsSome(BlockAmount(current_lines))
        THEN /\ Len(cc_txs') = Len(cc_txs) + 1
             /\ SubSeq(cc_txs', 1, Len(cc_txs)) = cc_txs
             /\ cc_txs'[Len(cc_txs')].Date = Val(current_date)
             /\ cc_txs'[Len(cc_txs')].Amount = Val(BlockAmount(current_lines))
        ELSE cc_txs' = cc_txs
      ]_vars

\* C15, reached: a block of four lines, the first and the last without an
\* amount, the second with -6.00 and the third with 3.00, was flushed at the
\* end of the text and gave one transaction of 3.00
C15_Witness ==
    /\ cpc = "returned"
    /\ cc_nread = 4
    /\ cc_ln = "SEATTLE  WA"
    /\ cc_txs = << [ Date |-> [y |-> 2024, m |-> 7, d |-> 16], Amount |-> 300,
                     Desc |-> "07/16/24* INK REF -6.00 FEE 3.00 SEATTLE WA" ] >>


(***************************************************************************)
(* The reconciliation of the credit cards and the whole run                *)
(***************************************************************************)
\* Both balances of the block b were found
BothFound(b) == IsSome(b.previous_balance) /\ IsSome(b.new_balance)

\* What main has put out about a failed check of the block b
BlockReports(b) ==
    {m \in Output : Contains(m, "*" \o b.digits \o "*")}

\* C11 as stated: a block whose two balances were found passes exactly when
\* previous balance plus the sum of the amounts is within one cent of the
\* new balance, and a failing one is reported with previous balance, sum
\* and new balance; a block with a balance not found is reported as missing
\* a balance.
C11_WithinOneCent ==
    \A i \in 1..Len(cc_checks) :
        IsSome(blocks[i].pdf) =>
            IF BothFound(blocks[i])
            THEN /\ (cc_checks[i] = "passed")
                      <=> Abs(Val(blocks[i].previous_balance)
                                + SumAmounts(blocks[i].cc_txs)
                                - Val(blocks[i].new_balance)) <= 1
                 /\ (cc_checks[i] # "passed")
                      => \E m \in BlockReports(blocks[i]) :
                            /\ Contains(m, "Validation failed")
                            /\ Contains(m, Fixed2Signed(Val(blocks[i].previous_balance)))
                            /\ Contains(m, Fixed2Signed(SumAmounts(blocks[i].cc_txs)))
                            /\ Contains(m, Fixed2Signed(Val(blocks[i].new_balance)))
            ELSE /\ cc_checks[i] = "missing"
                 /\ \E m \in BlockReports(blocks[i]) : Contains(m, "Missing")


\* The checking statement does not reconcile
CheckingFails ==
    /\ has_checking
    /\ \E sec \in Sections :
          ~isclose(pdf_totals[sec], SumAbs(OfSection(transactions, sec)))
\* The block b does not reconcile: a balance is missing or they do not add up
BlockFails(b) ==
    /\ IsSome(b.pdf)
    /\ \/ ~BothFound(b)
       \/ ~isclose_signed(Val(b.previous_balance) + SumAmounts(b.cc_txs),
                          Val(b.new_balance))
\* The run has come upon a reconciliation failure by now
CheckingFailed == CheckingFails /\ mpc \notin {"start", "parsed", "summed"}
FailedBlocks == {i \in 1..blk : BlockFails(blocks[i])}
FailedSoFar == CheckingFailed \/ FailedBlocks # {}
\* A warning was printed about the block b
Warned(b) ==
    \E k \in 1..Len(stdout) :
        /\ SubSeq(stdout[k], 1, 6) = "[WARN]"
        /\ Contains(stdout[k], "*" \o b.digits \o "*")
        /\ Contains(stdout[k], "continuing due to --force")

\* C12: over the whole run, a reconciliation failure (checking mismatch,
\* credit-card mismatch, missing credit-card balance) has raised the error
\* and ended the run exactly when --force is not set; with --force each
\* failure has left a warning and the run has gone on, the failing block
\* written like the others; and the workbook is saved only as the last step
\* of a run that met no failure or met them under --force.
C12_ForceAndSave ==
    /\ (FailedSoFar /\ ~force) => (mpc = "raised" /\ IsSome(error))
    /\ (mpc = "raised" \/ IsSome(error)) => (FailedSoFar /\ ~force)
    /\ mpc = "raised" => dest_file # "saved"
    /\ force => /\ CheckingFailed => WarnMessage \in Range(stdout)
                /\ \A i \in FailedBlocks : Warned(blocks[i]) /\ i \in Range(written)
    /\ dest_file = "saved"
       => /\ mpc = "finished"
          /\ ~dry_run
          /\ has_cc_sheet => blk = Len(blocks)
          /\ force \/ ~FailedSoFar

\* C12, reached: under --force the checking statement did not reconcile,
\* the first block missed a balance, the second did not add up; each left a
\* warning, both blocks were written and the workbook was saved at the end
C12_Witness ==
    /\ mpc = "finished"
    /\ force
    /\ CheckingFailed
    /\ cc_checks = << "missing", "failed" >>
    /\ written = << 1, 2 >>
    /\ dest_file = "saved"

\* A TOTAL line is read while a section is active: the line is no balance
\* marker and no section marker, and matches line_total
TotalLineRead ==
    /\ LineRead
    /\ section # NoSection
    /\ ~ScanOf[ln'].daily
    /\ ~IsSectionMarker(ln')
    /\ ScanOf[ln'].total

\* The trailing amount of the line parses as a number
TrailingParses(l) == ScanOf[l].trailing.ok /\ IsSome(ScanOf[l].trailing_val)

\* The value of the trailing amount without its sign
TrailingMagnitude(l) ==
    IF Val(ScanOf[l].trailing_val) < 0
    THEN 0 - Val(ScanOf[l].trailing_val)
    ELSE Val(ScanOf[l].trailing_val)

\* C21: a TOTAL line read while a section is active sets that section's
\* printed total to the absolute value of the line's trailing amount when
\* one parses, leaves it unchanged otherwise and never changes another
\* section's total, finalizes any open record, and leaves the active
\* section unchanged with no open record; printed totals are non-negative
\* in every reachable state.
C21_TotalLine ==
    [][ /\ TotalLineRead
           => /\ pdf_totals' =
                   IF TrailingParses(ln')
                   THEN [pdf_totals EXCEPT ![section] = TrailingMagnitude(ln')]
                   ELSE pdf_totals
              /\ Closes(current, transactions, transactions')
              /\ IsNone(current')
              /\ section' = section
        /\ \A sec \in Sections : pdf_totals[sec] >= 0 /\ pdf_totals'[sec] >= 0
      ]_vars

\* C21, reached: a TOTAL line with a parenthesized amount has closed the
\* open record and set the total of the active section, and of no other
C21_Witness ==
    /\ rule = "total"
    /\ ln = "Total Fees (7.00)"
    /\ section = "fee"
    /\ pdf_totals = [sec \in Sections |-> IF sec = "fee" THEN 700 ELSE 0]
    /\ Len(transactions) = 1
    /\ IsNone(current)

\* The line read is a header without amount at a place where headers are
\* looked for
NoAmtHeaderRead ==
    /\ LineRead
    /\ section # NoSection
    /\ IsNone(pending_header)
    /\ ~IsMarker(ln')
    /\ ~ScanOf[ln'].strict.ok
    /\ ScanOf[ln'].no_amt.ok

\* The pending header that the header-without-amount match m in l gives
PendingOf(m, l) ==
    [ date |-> [y |-> MatchYear(m, l), m |-> MatchMonth(m, l), d |-> MatchDay(m, l)],
      desc |-> Val(Group(m, l, 7)),
      section |-> section ]

\* C22: with a section active and no pending header, a line with leading
\* date token(s), a description and no trailing amount, of a valid calendar
\* date, finalizes the previously open record and enters PendingHeader
\* holding that date, description and the active section; no transaction is
\* created for this header until a later line supplies an amount.
C22_HeaderWithoutAmount ==
    [][ /\ ( /\ NoAmtHeaderRead
             /\ ValidDate(MatchYear(ScanOf[ln'].no_amt, ln'),
                          MatchMonth(ScanOf[ln'].no_amt, ln'),
                          MatchDay(ScanOf[ln'].no_amt, ln')) )
           => /\ Closes(current, transactions, transactions')
              /\ IsNone(current')
              /\ pending_header' = Some(PendingOf(ScanOf[ln'].no_amt, ln'))
              /\ section' = section
              /\ unparsed' = unparsed
        /\ ( /\ IsSome(pending_header)
             /\ IsSome(current') \/ transactions' # transactions )
           => /\ LineRead
              /\ ~IsMarker(ln')
              /\ FirstAmountParses(ln')
              /\ transactions' = transactions
              /\ Val(current').Date = Val(pending_header).date
              /\ Val(current').Amount = Val(ScanOf[ln'].in_clipped.first_val)
      ]_vars

\* C22, reached: a header without amount, with two date tokens, has closed
\* the open record and is pending with the date of its second token
C22_Witness ==
    /\ rule = "no_amt"
    /\ ln = "07/15 08/16 RENT"
    /\ Len(transactions) = 1
    /\ IsNone(current)
    /\ IsSome(pending_header)
    /\ Val(pending_header).date.m = 8
    /\ Val(pending_header).desc = "RENT"

\* The line read matches the loose header grammar, and neither the strict
\* nor the header-without-amount grammar, at a place where headers are
\* looked for
LooseHeaderRead ==
    /\ LineRead
    /\ section # NoSection
    /\ IsNone(pending_header)
    /\ ~IsMarker(ln')
    /\ ~ScanOf[ln'].strict.ok
    /\ ~ScanOf[ln'].no_amt.ok
    /\ ScanOf[ln'].loose.ok

\* Year, month and day of the date token of the loose match in l
LooseYear(l) ==
    IF IsSome(Group(ScanOf[l].loose, l, 3)) THEN GroupInt(ScanOf[l].loose, l, 3)
    ELSE default_year
LooseMonth(l) == GroupInt(ScanOf[l].loose, l, 1)
LooseDay(l) == GroupInt(ScanOf[l].loose, l, 2)

\* The amount at the end of the line, as the loose match has it
LineEndAmount(l) == GroupAmount(ScanOf[l].loose, l, 4)

\* The text of l up to and including its first amount holds a date token
DateBeforeFirstAmount(l) ==
    ScanOf[l].in_clipped.first_amt.ok /\ ScanOf[l].in_clipped.dmatch.ok

\* The step has closed the open record and opened one with the date of the
\* line's date token, the amount amt and the text as its first description
\* line
OpensLooseRecord(amt, text) ==
    /\ Closes(current, transactions, transactions')
    /\ current' = Some([ Date |-> [y |-> LooseYear(ln'), m |-> LooseMonth(ln'),
                                   d |-> LooseDay(ln')],
                         Amount |-> amt,
                         Section |-> section,
                         desc_lines |-> << text >> ])
    /\ IsNone(pending_header')
    /\ unparsed' = unparsed

\* C23 (as amended): with a section active and no pending header, a line
\* that matches the loose header grammar but not the strict or
\* header-without-amount grammar, whose text up to and including its first
\* amount holds the date token, whose first amount parses as a number and
\* whose date is a valid calendar date, finalizes the previously open record
\* and opens a new record carrying that date and the line's FIRST amount,
\* with the line's text cut off after that first amount as first
\* description line; every other such line is appended to the active
\* section's unparsed list and closes and opens no record.
C23_LooseHeaderOpensRecord ==
    [][ LooseHeaderRead
        => IF /\ DateBeforeFirstAmount(ln')
              /\ FirstAmountParses(ln')
              /\ ValidDate(LooseYear(ln'), LooseMonth(ln'), LooseDay(ln'))
           THEN OpensLooseRecord(Val(ScanOf[ln'].in_clipped.first_val),
                                 ScanOf[ln'].clipped)
           ELSE /\ unparsed' = [unparsed EXCEPT ![section] = Append(@, ln')]
                /\ current' = current
                /\ transactions' = transactions
                /\ IsNone(pending_header')
      ]_vars

\* C23, reached: a loose header with two amounts has closed the open record
\* and opened one with the first of the two
C23_Witness ==
    /\ rule = "loose"
    /\ ln = "POS 07/18 1.00 9.00"
    /\ Len(transactions) = 1
    /\ IsSome(current)
    /\ Val(current).Amount = 100
    /\ Val(current).desc_lines = << "POS 07/18 1.00" >>

\* C23 as stated: every line that matches the loose header grammar with a
\* valid calendar date, and not the strict or header-without-amount
\* grammar, opens a new record carrying the line's date and its line-end
\* amount, with the line's text truncated at the amount as first
\* description line.
C23_AsStated ==
    [][ ( /\ LooseHeaderRead
          /\ ValidDate(LooseYear(ln'), LooseMonth(ln'), LooseDay(ln')) )
        => /\ IsSome(LineEndAmount(ln'))
           /\ OpensLooseRecord(Val(LineEndAmount(ln')), ScanOf[ln'].clipped)
      ]_vars

\* A line that is no marker and matches no header grammar is read while a
\* record is open
ContinuationRead ==
    /\ LineRead
    /\ IsSome(current)
    /\ ~IsMarker(ln')
    /\ ~ScanOf[ln'].strict.ok
    /\ ~ScanOf[ln'].no_amt.ok
    /\ ~ScanOf[ln'].loose.ok

\* C24: when a record is open and the line matches no marker and no header
\* grammar, the line, cut off after its first amount occurrence if it has
\* one, is appended as one more description line of the open record; the
\* record's date, amount and section are unchanged by it even when the line
\* contains an amount, and nothing is added to the unparsed list.
C24_ContinuationAppends ==
    [][ ContinuationRead
        => /\ IsSome(current')
           /\ Val(current').desc_lines =
                Append(Val(current).desc_lines, ScanOf[ln'].clipped)
           /\ Val(current').Date = Val(current).Date
           /\ Val(current').Amount = Val(current).Amount
           /\ Val(current').Section = Val(current).Section
           /\ unparsed' = unparsed
           /\ transactions' = transactions
      ]_vars

\* C24, reached: a line with an amount and text after it has been appended,
\* cut off after the amount, to a record that keeps its own amount
C24_Witness ==
    /\ rule = "continuation"
    /\ ln = "REF 4.00 EXTRA"
    /\ IsSome(current)
    /\ Val(current).desc_lines = << "ACH DEPOSIT", "REF 4.00" >>
    /\ Val(current).Amount = 1000
    /\ unparsed = [sec \in Sections |-> <<>>]

\* C26: after every line of the checking parser, an open record and a
\* pending header never exist at the same time; when no section is active
\* neither exists; and whenever an open record or a pending header exists,
\* the section stored in it equals the currently active section.
C26_OneOpenItem ==
    /\ ~(IsSome(current) /\ IsSome(pending_header))
    /\ section = NoSection => IsNone(current) /\ IsNone(pending_header)
    /\ IsSome(current) => Val(current).Section = section
    /\ IsSome(pending_header) => Val(pending_header).section = section

\* C26, reached: a pending header of the withdrawal section has been turned
\* into the open record
C26_Witness ==
    /\ rule = "pending_amount"
    /\ section = "withdrawal"
    /\ IsSome(current)
    /\ Val(current).Section = "withdrawal"
    /\ IsNone(pending_header)
    /\ nread = 3

\* The line read is header-shaped and is rejected: a strict header of an
\* invalid date or with an amount that does not parse, a header without
\* amount of an invalid date, or a loose header whose date does not precede
\* its first amount, whose first amount does not parse or whose date is
\* invalid
RejectedHeaderRead ==
    /\ LineRead
    /\ section # NoSection
    /\ IsNone(pending_header)
    /\ ~IsMarker(ln')
    /\ \/ /\ ScanOf[ln'].strict.ok
          /\ \/ ~ValidDate(MatchYear(ScanOf[ln'].strict, ln'),
                           MatchMonth(ScanOf[ln'].strict, ln'),
                           MatchDay(ScanOf[ln'].strict, ln'))
             \/ IsNone(ScanOf[ln'].strict_val)
       \/ /\ ~ScanOf[ln'].strict.ok
          /\ ScanOf[ln'].no_amt.ok
          /\ ~ValidDate(MatchYear(ScanOf[ln'].no_amt, ln'),
                        MatchMonth(ScanOf[ln'].no_amt, ln'),
                        MatchDay(ScanOf[ln'].no_amt, ln'))
       \/ /\ ~ScanOf[ln'].strict.ok
          /\ ~ScanOf[ln'].no_amt.ok
          /\ ScanOf[ln'].loose.ok
          /\ \/ ~DateBeforeFirstAmount(ln')
             \/ ~FirstAmountParses(ln')
             \/ ~ValidDate(LooseYear(ln'), LooseMonth(ln'), LooseDay(ln'))

\* C27 as stated: whenever a header-shaped line is rejected and routed to
\* the unparsed list, the only state change is the one entry added to the
\* active section's unparsed list: the transaction list is unchanged and a
\* record that was open before the line is still open, unmodified, after
\* it, for all three header grammars alike.
C27_RejectionLeavesRecordOpen ==
    [][ RejectedHeaderRead
        => /\ unparsed' = [unparsed EXCEPT ![section] = Append(@, ln')]
           /\ transactions' = transactions
           /\ current' = current
           /\ pending_header' = pending_header
           /\ section' = section
           /\ pdf_totals' = pdf_totals
      ]_vars

\* A line is read from the first line with a date token on
CcBlockLineRead ==
    /\ CcLineRead
    /\ IsSome(first_tx_idx) \/ CcScanOf[cc_ln'].dm.ok

\* No block is open: no date and no lines are held
NoBlockOpen(cd, cl) == IsNone(cd) /\ cl = <<>>

\* C25: a line matching the subtotal/cycle-summary guard flushes the current
\* block, starts no new block and contributes nothing to any transaction,
\* and after it no block is open; a line with neither guard nor date token
\* is appended to the current block only when a block with a valid date is
\* open, so that after a guard line every line without a date token is
\* attached to no block until the next line with a date token.
C25_SummaryGuardEndsBlock ==
    [][ /\ (CcBlockLineRead /\ CcScanOf[cc_ln'].summary)
           => /\ cc_txs' = Flushed(current_date, current_lines, cc_txs)
              /\ NoBlockOpen(current_date', current_lines')
        /\ ( /\ CcBlockLineRead
             /\ ~CcScanOf[cc_ln'].summary
             /\ ~CcScanOf[cc_ln'].dm.ok )
           => /\ cc_txs' = cc_txs
              /\ current_date' = current_date
              /\ current_lines' = IF IsSome(current_date)
                                  THEN Append(current_lines, cc_ln')
                                  ELSE current_lines
              /\ NoBlockOpen(current_date, current_lines)
                   => NoBlockOpen(current_date', current_lines')
      ]_vars

\* C25, reached: a subtotal line has flushed a block, which gave a
\* transaction, and the line without date token after it is in no block
C25_Witness ==
    /\ cc_rule = "skipped"
    /\ cc_ln = "SEATTLE  WA"
    /\ Len(cc_txs) = 1
    /\ cc_txs[1].Desc = "07/15 TEA 4.00"
    /\ NoBlockOpen(current_date, current_lines)

====
